---------------------------- MODULE Spec2Model ----------------------------
(***************************************************************************)
(* Terminal-output classification and running-state tracking of the       *)
(* Claude Code monitor extension: OutputParser (outputParser.ts),          *)
(* TerminalListener (terminalListener.ts), ItemTypeResolver and            *)
(* RunningStateManager (runningStateManager.ts) and the wiring done in     *)
(* activate() (extension.ts).                                              *)
(*                                                                         *)
(* Text is modelled character by character: a string is a sequence of      *)
(* one-character strings.  Characters outside ASCII and control codes are  *)
(* written as named tokens: "BULLET" (U+25CF), "CHECK" (U+2713), "BOX"     *)
(* (U+2610), "HOOK" (U+23BF), "ESC" (0x1b), "SI" (0x0f), "NL", "CR",       *)
(* "TAB".                                                                  *)
(***************************************************************************)
EXTENDS Integers, Sequences, FiniteSets, TLC

(***************************************************************************)
(* Character classes of the regular expressions.                           *)
(***************************************************************************)
Digit == {"0", "1", "2", "3", "4", "5", "6", "7", "8", "9"}

UpperSeq == <<"A", "B", "C", "D", "E", "F", "G", "H", "I", "J", "K", "L", "M",
              "N", "O", "P", "Q", "R", "S", "T", "U", "V", "W", "X", "Y", "Z">>

LowerSeq == <<"a", "b", "c", "d", "e", "f", "g", "h", "i", "j", "k", "l", "m",
              "n", "o", "p", "q", "r", "s", "t", "u", "v", "w", "x", "y", "z">>

Upper == {UpperSeq[i] : i \in 1..26}

Lower == {LowerSeq[i] : i \in 1..26}

Alpha == Upper \cup Lower

\* \w
WordCh == Alpha \cup Digit \cup {"_"}

\* [\w-]
NameCh == WordCh \cup {"-"}

\* \s
Space == {" ", "TAB", "NL", "CR"}

\* characters that "." does not match
LineTerm == {"NL", "CR"}

\* String.prototype.toLowerCase on one character
ToLower(c) ==
  IF c \in Upper THEN LowerSeq[CHOOSE i \in 1..26 : UpperSeq[i] = c] ELSE c

(***************************************************************************)
(* String primitives.                                                      *)
(***************************************************************************)
\* first index >= i whose character is not in S (Len(s)+1 when there is none)
RECURSIVE SkipSet(_, _, _)
SkipSet(s, i, S) ==
  IF i <= Len(s) /\ s[i] \in S THEN SkipSet(s, i + 1, S) ELSE i

\* last index <= i whose character is not in S (0 when there is none)
RECURSIVE SkipSetBack(_, _, _)
SkipSetBack(s, i, S) ==
  IF i >= 1 /\ s[i] \in S THEN SkipSetBack(s, i - 1, S) ELSE i

\* first index >= i whose character is in S (Len(s)+1 when there is none)
RECURSIVE FindSet(_, _, _)
FindSet(s, i, S) ==
  IF i <= Len(s) /\ s[i] \notin S THEN FindSet(s, i + 1, S) ELSE i

\* the literal lit occurs in s at index i
LitAt(s, i, lit) ==
  /\ i >= 1
  /\ i + Len(lit) - 1 <= Len(s)
  /\ \A k \in 1..Len(lit) : s[i + k - 1] = lit[k]

\* the literal lit occurs in s at index i, ignoring case
LitAtNoCase(s, i, lit) ==
  /\ i >= 1
  /\ i + Len(lit) - 1 <= Len(s)
  /\ \A k \in 1..Len(lit) : ToLower(s[i + k - 1]) = ToLower(lit[k])

\* String.prototype.includes
Includes(s, lit) == \E i \in 1..Len(s) : LitAt(s, i, lit)

\* String.prototype.trim
Trim(s) == SubSeq(s, SkipSet(s, 1, Space), SkipSetBack(s, Len(s), Space))

\* String.prototype.startsWith
StartsWith(s, lit) == LitAt(s, 1, lit)

\* String.prototype.split('\n')
RECURSIVE SplitLines(_)
SplitLines(s) ==
  LET j == FindSet(s, 1, {"NL"})
  IN  IF j > Len(s) THEN <<s>>
      ELSE <<SubSeq(s, 1, j - 1)>> \o SplitLines(SubSeq(s, j + 1, Len(s)))

\* String.prototype.substring(0, n)
Substring0(s, n) == SubSeq(s, 1, IF Len(s) < n THEN Len(s) ELSE n)

(***************************************************************************)
(* OutputParser.parse: removal of ANSI escape sequences.                   *)
(*   /\[\d+m|\[\d+[;]?\d*[m;]* |[\x1b\x0f]\[[0-9;]*[a-zA-Z]/g              *)
(* AnsiEnd(s, i) is the index after the match that starts at i, or i when  *)
(* no alternative matches there.                                           *)
(***************************************************************************)
AnsiEnd(s, i) ==
  LET d1 == SkipSet(s, i + 1, Digit)
      \* alternative 2: \[ \d+ ;? \d* [m;]*
      a2 == IF d1 <= Len(s) /\ s[d1] = ";" THEN d1 + 1 ELSE d1
      b2 == SkipSet(s, a2, Digit)
      c2 == SkipSet(s, b2, {"m", ";"})
      \* alternative 3: [\x1b\x0f] \[ [0-9;]* [a-zA-Z]
      a3 == SkipSet(s, i + 2, Digit \cup {";"})
  IN  IF s[i] = "[" /\ d1 > i + 1
        THEN IF d1 <= Len(s) /\ s[d1] = "m" THEN d1 + 1 ELSE c2
      ELSE IF /\ s[i] \in {"ESC", "SI"}
              /\ i + 1 <= Len(s) /\ s[i + 1] = "["
              /\ a3 <= Len(s) /\ s[a3] \in Alpha
        THEN a3 + 1
      ELSE i

RECURSIVE CleanFrom(_, _)
CleanFrom(s, i) ==
  IF i > Len(s) THEN <<>>
  ELSE LET e == AnsiEnd(s, i)
       IN  IF e > i THEN CleanFrom(s, e) ELSE <<s[i]>> \o CleanFrom(s, i + 1)

CleanOutput(output) == CleanFrom(output, 1)

(***************************************************************************)
(* Maps (JavaScript Map with string keys) as functions with a finite       *)
(* domain.                                                                 *)
(***************************************************************************)
EmptyMap == <<>>

MapSet(m, k, v) == [x \in DOMAIN m \cup {k} |-> IF x = k THEN v ELSE m[x]]

MapDelete(m, k) == [x \in DOMAIN m \ {k} |-> m[x]]

MapHas(m, k) == k \in DOMAIN m

(***************************************************************************)
(* ItemTypeResolver: the cache maps the key `${type}__${name}`, modelled   *)
(* as the pair <<type, name>>, to the entry's source.                      *)
(***************************************************************************)
ItemTypes == {"mcp", "plugin", "skill", "agent"}

CachedNames(c, type) == {k[2] : k \in {x \in DOMAIN c : x[1] = type}}

getCachedMcps(c) == CachedNames(c, "mcp")

getCachedPlugins(c) == CachedNames(c, "plugin")

getCachedSkills(c) == CachedNames(c, "skill")

getCachedAgents(c) == CachedNames(c, "agent")

\* the update that leaves an entry alone when its key is already cached
RECURSIVE updateDynamicMcps_KeepExisting(_, _)
updateDynamicMcps_KeepExisting(c, mcps) ==
  IF mcps = <<>> THEN c
  ELSE updateDynamicMcps_KeepExisting(
         IF MapHas(c, <<"mcp", Head(mcps)>>) THEN c
         ELSE MapSet(c, <<"mcp", Head(mcps)>>, "dynamic"), Tail(mcps))

\* the update that keeps nothing but the entries it writes
updateDynamicMcps_Replace(c, mcps) ==
  [k \in {<<"mcp", mcps[i]>> : i \in 1..Len(mcps)} |-> "dynamic"]

RECURSIVE updateDynamicMcps(_, _)
updateDynamicMcps(c, mcps) ==
  IF mcps = <<>> THEN c
  ELSE updateDynamicMcps(MapSet(c, <<"mcp", Head(mcps)>>, "dynamic"), Tail(mcps))

(***************************************************************************)
(* OutputParser: the patterns.  A match is a record with the captured      *)
(* groups; NoMatch stands for a null match, Undef for a group that did     *)
(* not take part in the match.                                             *)
(***************************************************************************)
NoMatch == [matched |-> FALSE]

Undef == <<"UNDEFINED">>

\* JavaScript a || b on strings (Undef and the empty string are falsy)
OrElse(a, b) == IF a = Undef \/ a = <<>> THEN b ELSE a

\* ([...]+)(?:\(([^)]+)\))?$ from index i, the name drawn from NameSet
NameAndDescription(line, i, NameSet) ==
  LET j == SkipSet(line, i, NameSet)
      k == FindSet(line, j + 1, {")"})
  IN  IF j = i THEN NoMatch
      ELSE IF j > Len(line)
        THEN [matched |-> TRUE, g1 |-> SubSeq(line, i, j - 1), g2 |-> Undef]
      ELSE IF line[j] = "(" /\ k > j + 1 /\ k = Len(line)
        THEN [matched |-> TRUE, g1 |-> SubSeq(line, i, j - 1),
              g2 |-> SubSeq(line, j + 1, k - 1)]
      ELSE NoMatch

\* the pattern without its \s*: /^●\/([\w-]+)(?:\(([^)]+)\))?$/
SKILL_FORMAT_PATTERN_NoSpace(line) ==
  IF Len(line) >= 2 /\ line[1] = "BULLET" /\ line[2] = "/"
    THEN NameAndDescription(line, 3, NameCh)
    ELSE NoMatch

\* /^●\s*\/\s*([\w-]+)(?:\(([^)]+)\))?$/
SKILL_FORMAT_PATTERN(line) ==
  LET a == SkipSet(line, 2, Space)
      b == SkipSet(line, a + 1, Space)
  IN  IF Len(line) >= 1 /\ line[1] = "BULLET" /\ a <= Len(line) /\ line[a] = "/"
        THEN NameAndDescription(line, b, NameCh)
        ELSE NoMatch

\* /^●\s*mcp[-_:]([a-zA-Z0-9_-]+)(?:\(([^)]+)\))?$/
MCP_FORMAT_PATTERN(line) ==
  LET a == SkipSet(line, 2, Space)
  IN  IF /\ Len(line) >= 1 /\ line[1] = "BULLET"
         /\ LitAt(line, a, <<"m", "c", "p">>)
         /\ a + 3 <= Len(line) /\ line[a + 3] \in {"-", "_", ":"}
        THEN NameAndDescription(line, a + 4, Alpha \cup Digit \cup {"_", "-"})
        ELSE NoMatch

\* the pattern applied to what follows a leading "> "
AGENT_FORMAT_PATTERN_AfterPrompt(line) ==
  LET rest == IF LitAt(line, 1, <<">", " ">>) THEN SubSeq(line, 3, Len(line))
              ELSE line
  IN  IF Len(rest) >= 1 /\ rest[1] = "BULLET"
        THEN NameAndDescription(rest, SkipSet(rest, 2, Space), NameCh)
        ELSE NoMatch

\* /^●\s*([\w-]+)(?:\(([^)]+)\))?$/
AGENT_FORMAT_PATTERN(line) ==
  IF Len(line) >= 1 /\ line[1] = "BULLET"
    THEN NameAndDescription(line, SkipSet(line, 2, Space), NameCh)
    ELSE NoMatch

\* (.+)$ from index i: the rest of the line, non-empty, no line terminator
RestOfLine(line, i) ==
  IF i <= Len(line) /\ \A k \in i..Len(line) : line[k] \notin LineTerm
    THEN SubSeq(line, i, Len(line)) ELSE Undef

\* /^\[tag\]\s+(\w+):\s*(.+)$/ for tag = skill, agent.  The line is trimmed,
\* so \s* never has to give a character back to (.+).
BracketCall(line, tag) ==
  LET a == Len(tag) + 1
      b == SkipSet(line, a, Space)
      c == SkipSet(line, b, WordCh)
      d == SkipSet(line, c + 1, Space)
      rest == RestOfLine(line, d)
      \* \s* backtracks when the rest of the line is white space only
      back == RestOfLine(line, IF d > Len(line) THEN d - 1 ELSE d)
      tail == IF rest # Undef THEN rest
              ELSE IF d > c + 1 THEN back ELSE Undef
  IN  IF /\ LitAt(line, 1, tag) /\ b > a /\ c > b
         /\ c <= Len(line) /\ line[c] = ":" /\ tail # Undef
        THEN [matched |-> TRUE, g1 |-> SubSeq(line, b, c - 1), g2 |-> tail]
        ELSE NoMatch

SKILL_CALL_PATTERN(line) ==
  BracketCall(line, <<"[", "s", "k", "i", "l", "l", "]">>)

AGENT_CALL_PATTERN(line) ==
  BracketCall(line, <<"[", "a", "g", "e", "n", "t", "]">>)

\* /^\[([A-Z][a-zA-Z]*)\]\s+(.+)$/
TOOL_CALL_PATTERN(line) ==
  LET c == SkipSet(line, 3, Alpha)
      d == SkipSet(line, c + 1, Space)
      \* \s+ keeps at least one character and gives the others back when
      \* nothing else is left for (.+)
      e == IF d > Len(line) /\ d > c + 2 THEN d - 1 ELSE d
      rest == RestOfLine(line, e)
  IN  IF /\ Len(line) >= 2 /\ line[1] = "[" /\ line[2] \in Upper
         /\ c <= Len(line) /\ line[c] = "]"
         /\ d > c + 1 /\ rest # Undef
        THEN [matched |-> TRUE, g1 |-> SubSeq(line, 2, c - 1), g2 |-> rest]
        ELSE NoMatch

\* /^\s*[✓☐]\s+(\d+\.\s*)?(.+)$/
PLAN_STEP_PATTERN(line) ==
  LET a == SkipSet(line, 1, Space)
      b == SkipSet(line, a + 1, Space)
      c == SkipSet(line, b, Digit)
      d == SkipSet(line, c + 1, Space)
      numbered == c > b /\ c <= Len(line) /\ line[c] = "."
      \* the optional numbering is dropped when it leaves nothing for (.+)
      withNum == IF numbered THEN RestOfLine(line, d) ELSE Undef
      rest == IF withNum # Undef THEN withNum ELSE RestOfLine(line, b)
  IN  IF /\ a <= Len(line) /\ line[a] \in {"CHECK", "BOX"}
         /\ b > a + 1 /\ rest # Undef
        THEN [matched |-> TRUE, g2 |-> rest]
        ELSE NoMatch

\* /^(\w+)_result_\w+/ : (\w+) is greedy, so the server name ends at the
\* last "_result_" of the leading word that is followed by a word character
MCP_RESULT_PATTERN(line) ==
  LET e == SkipSet(line, 1, WordCh)
      lit == <<"_", "r", "e", "s", "u", "l", "t", "_">>
      ps == {p \in 2..e : LitAt(line, p, lit) /\ p + 8 < e}
      p == CHOOSE q \in ps : \A r \in ps : r <= q
  IN  IF ps # {} THEN [matched |-> TRUE, g1 |-> SubSeq(line, 1, p - 1)]
      ELSE NoMatch

(***************************************************************************)
(* OutputParser.parseLine and OutputParser.parse.  parseLine returns the   *)
(* event (Null for null) together with the resolver cache and the          *)
(* discoveredMcps set as its side effects leave them.                      *)
(***************************************************************************)
Null == [type |-> "null"]

DetailKey(eventType) ==
  CASE eventType = "mcp_call" -> "mcp"
    [] eventType = "plugin_call" -> "plugin"
    [] eventType = "skill_call" -> "skill"
    [] OTHER -> "agent"

\* the lookup with the plugin list consulted before the MCP list
CacheEventType_PluginFirst(c, itemName) ==
  IF itemName \in getCachedPlugins(c) THEN "plugin_call"
  ELSE IF itemName \in getCachedMcps(c) THEN "mcp_call"
  ELSE IF itemName \in getCachedSkills(c) THEN "skill_call"
  ELSE "agent_call"

\* Level 2 of parseLine: Priority MCP > Plugin > Skill > Agent, default agent
CacheEventType(c, itemName) ==
  IF itemName \in getCachedMcps(c) THEN "mcp_call"
  ELSE IF itemName \in getCachedPlugins(c) THEN "plugin_call"
  ELSE IF itemName \in getCachedSkills(c) THEN "skill_call"
  ELSE IF itemName \in getCachedAgents(c) THEN "agent_call"
  ELSE "agent_call"

\* the cascade with the generic bulleted name tried before the MCP marker
parseLine_GenericBeforeMcp(line, c, disc, t) ==
  LET trimmedLine == Trim(line)
      skillFormatMatch == SKILL_FORMAT_PATTERN(trimmedLine)
      mcpMatch == MCP_FORMAT_PATTERN(trimmedLine)
      agentFormatMatch == AGENT_FORMAT_PATTERN(trimmedLine)
      skillMatch == SKILL_CALL_PATTERN(trimmedLine)
      agentMatch == AGENT_CALL_PATTERN(trimmedLine)
      toolMatch == TOOL_CALL_PATTERN(trimmedLine)
      planMatch == PLAN_STEP_PATTERN(trimmedLine)
      mcpResultMatch == MCP_RESULT_PATTERN(trimmedLine)
      same(ev) == [event |-> ev, cache |-> c, discovered |-> disc]
  IN  IF line = <<>> THEN same(Null)
      ELSE IF skillFormatMatch.matched THEN
        same([type |-> "skill_call", timestamp |-> t,
              content |-> OrElse(skillFormatMatch.g2, skillFormatMatch.g1),
              details |-> [skill |-> skillFormatMatch.g1,
                           name |-> skillFormatMatch.g1, raw |-> line]])
      ELSE IF agentFormatMatch.matched THEN
        LET itemName == agentFormatMatch.g1
            eventType == CacheEventType(c, itemName)
        IN  same([type |-> eventType, timestamp |-> t,
                  content |-> OrElse(agentFormatMatch.g2, itemName),
                  details |-> (DetailKey(eventType) :> itemName)
                                @@ [name |-> itemName, raw |-> line]])
      ELSE IF mcpMatch.matched THEN
        [event |-> [type |-> "mcp_call", timestamp |-> t,
                    content |-> OrElse(mcpMatch.g2,
                                       <<"M", "C", "P", ":", " ">> \o mcpMatch.g1),
                    details |-> [mcp |-> mcpMatch.g1, name |-> mcpMatch.g1,
                                 raw |-> line]],
         cache |-> updateDynamicMcps(c, <<mcpMatch.g1>>),
         discovered |-> disc]
      ELSE IF skillMatch.matched THEN
        same([type |-> "skill_call", timestamp |-> t, content |-> skillMatch.g2,
              details |-> [skill |-> skillMatch.g1, raw |-> line]])
      ELSE IF agentMatch.matched THEN
        same([type |-> "agent_call", timestamp |-> t, content |-> agentMatch.g2,
              details |-> [agent |-> agentMatch.g1, raw |-> line]])
      ELSE IF toolMatch.matched THEN
        same([type |-> "tool_call", timestamp |-> t, content |-> toolMatch.g2,
              details |-> [tool |-> toolMatch.g1, raw |-> line]])
      ELSE IF planMatch.matched THEN
        same([type |-> "plan_progress", timestamp |-> t, content |-> planMatch.g2,
              details |-> [completed |-> Includes(trimmedLine, <<"CHECK">>),
                           raw |-> line]])
      ELSE IF /\ mcpResultMatch.matched
              /\ Len(mcpResultMatch.g1) > 3
              /\ [i \in 1..Len(mcpResultMatch.g1) |-> ToLower(mcpResultMatch.g1[i])]
                   \notin {<<"e", "r", "r", "o", "r">>,
                           <<"o", "u", "t", "p", "u", "t">>,
                           <<"r", "e", "s", "u", "l", "t">>}
        THEN [event |-> Null, cache |-> c,
              discovered |-> disc \cup {mcpResultMatch.g1}]
      ELSE same(Null)

parseLine(line, c, disc, t) ==
  LET trimmedLine == Trim(line)
      skillFormatMatch == SKILL_FORMAT_PATTERN(trimmedLine)
      mcpMatch == MCP_FORMAT_PATTERN(trimmedLine)
      agentFormatMatch == AGENT_FORMAT_PATTERN(trimmedLine)
      skillMatch == SKILL_CALL_PATTERN(trimmedLine)
      agentMatch == AGENT_CALL_PATTERN(trimmedLine)
      toolMatch == TOOL_CALL_PATTERN(trimmedLine)
      planMatch == PLAN_STEP_PATTERN(trimmedLine)
      mcpResultMatch == MCP_RESULT_PATTERN(trimmedLine)
      same(ev) == [event |-> ev, cache |-> c, discovered |-> disc]
  IN  IF line = <<>> THEN same(Null)
      ELSE IF skillFormatMatch.matched THEN
        same([type |-> "skill_call", timestamp |-> t,
              content |-> OrElse(skillFormatMatch.g2, skillFormatMatch.g1),
              details |-> [skill |-> skillFormatMatch.g1,
                           name |-> skillFormatMatch.g1, raw |-> line]])
      ELSE IF mcpMatch.matched THEN
        [event |-> [type |-> "mcp_call", timestamp |-> t,
                    content |-> OrElse(mcpMatch.g2,
                                       <<"M", "C", "P", ":", " ">> \o mcpMatch.g1),
                    details |-> [mcp |-> mcpMatch.g1, name |-> mcpMatch.g1,
                                 raw |-> line]],
         cache |-> updateDynamicMcps(c, <<mcpMatch.g1>>),
         discovered |-> disc]
      ELSE IF agentFormatMatch.matched THEN
        LET itemName == agentFormatMatch.g1
            eventType == CacheEventType(c, itemName)
        IN  same([type |-> eventType, timestamp |-> t,
                  content |-> OrElse(agentFormatMatch.g2, itemName),
                  details |-> (DetailKey(eventType) :> itemName)
                                @@ [name |-> itemName, raw |-> line]])
      ELSE IF skillMatch.matched THEN
        same([type |-> "skill_call", timestamp |-> t, content |-> skillMatch.g2,
              details |-> [skill |-> skillMatch.g1, raw |-> line]])
      ELSE IF agentMatch.matched THEN
        same([type |-> "agent_call", timestamp |-> t, content |-> agentMatch.g2,
              details |-> [agent |-> agentMatch.g1, raw |-> line]])
      ELSE IF toolMatch.matched THEN
        same([type |-> "tool_call", timestamp |-> t, content |-> toolMatch.g2,
              details |-> [tool |-> toolMatch.g1, raw |-> line]])
      ELSE IF planMatch.matched THEN
        same([type |-> "plan_progress", timestamp |-> t, content |-> planMatch.g2,
              details |-> [completed |-> Includes(trimmedLine, <<"CHECK">>),
                           raw |-> line]])
      ELSE IF /\ mcpResultMatch.matched
              /\ Len(mcpResultMatch.g1) > 3
              /\ [i \in 1..Len(mcpResultMatch.g1) |-> ToLower(mcpResultMatch.g1[i])]
                   \notin {<<"e", "r", "r", "o", "r">>,
                           <<"o", "u", "t", "p", "u", "t">>,
                           <<"r", "e", "s", "u", "l", "t">>}
        THEN [event |-> Null, cache |-> c,
              discovered |-> disc \cup {mcpResultMatch.g1}]
      ELSE same(Null)

\* the loop of parse over lines[i..]; st carries events, cache, discovered
RECURSIVE parseLines(_, _, _, _)
parseLines(lines, i, st, t) ==
  IF i > Len(lines) THEN st
  ELSE LET r == parseLine(Trim(lines[i]), st.cache, st.discovered, t)
       IN  parseLines(lines, i + 1,
             [events |-> IF r.event # Null THEN Append(st.events, r.event)
                         ELSE st.events,
              cache |-> r.cache, discovered |-> r.discovered], t)

parse(output, c, disc, t) ==
  parseLines(SplitLines(CleanOutput(output)), 1,
             [events |-> <<>>, cache |-> c, discovered |-> disc], t)

(***************************************************************************)
(* Program constants.                                                      *)
(***************************************************************************)
DUPLICATE_WINDOW == 3000

AGENT_TIMEOUT == 10000

\* ItemTypeResolver.CACHE_TTL
CACHE_TTL == 30000

\* this.eventBuffer.length > 1000
BufferCapacity == 1000

\* this.eventBuffer.slice(-500)
BufferRetain == 500

\* event.content?.substring(0, 100)
KeyLength == 100

(***************************************************************************)
(* Bounds of the model.                                                    *)
(***************************************************************************)
\* granularity of the clock, in ms
Tick == 3000

\* the clock stops here
MaxTime == 13000

\* number of chunks delivered in one behaviour
MaxChunks == 3

\* the step of the clock between chunks that follow each other closely
Moment == 1000

\* number of hook status messages delivered in one behaviour
MaxHooks == 2

\* number of calls of resolveType and refreshCache in one behaviour
MaxCalls == 2

\* writes of the hook scripts to the status pipe file
MaxWrites == 2

\* the resolver's clock moves in steps of half the cache lifetime
ResolverTick == 15000

MaxResolverTime == 60000

(***************************************************************************)
(* State.                                                                  *)
(***************************************************************************)
VARIABLES
  now,             \* Date.now()
  chunks,          \* number of chunks delivered so far
  eventBuffer,     \* TerminalListener.eventBuffer
  recentEvents,    \* TerminalListener.recentEvents : eventKey -> timestamp
  activeIds,       \* TerminalListener.activeIds, in insertion order
  activeTimeouts,  \* TerminalListener.activeTimeouts : id -> timer handle
  timers,          \* timers armed with setTimeout and not yet fired or cleared
  discoveredMcps,  \* OutputParser.discoveredMcps
  cache,           \* ItemTypeResolver.cache
  runningItems,    \* RunningStateManager.runningItems
  pushed,          \* number of events pushed to eventBuffer so far
  obs,             \* what the callbacks of the last step observed
  lineLog,         \* raw line -> time an event parsed from it was last emitted
  keyLog,          \* kind and content -> time such an event was last emitted
  track,           \* id -> what happened to it since its last start
  probe,           \* a line handed to the parser under cache, and its result
  hooks,           \* number of hook status messages delivered so far
  disposed,        \* TerminalListener.dispose() has been called
  inbox,           \* the status pipe file of HookStateReceiver, and its writes
  lastCacheUpdate, \* ItemTypeResolver.lastCacheUpdate
  refreshing,      \* the calls of updateCacheIfNeeded that are awaiting a source
  answer,          \* what the last call on the resolver did and returned
  calls,           \* number of calls made on the resolver so far
  lastRefresh      \* start time of the refresh that was completed last

vars == <<now, chunks, eventBuffer, recentEvents, activeIds, activeTimeouts,
          timers, discoveredMcps, cache, runningItems, pushed, obs, lineLog,
          keyLog, track, probe, hooks, disposed, inbox, lastCacheUpdate,
          refreshing, answer, calls, lastRefresh>>

hostVars == <<hooks, disposed, inbox>>

resolverVars == <<lastCacheUpdate, refreshing, answer, calls, lastRefresh>>

NoAnswer == [act |-> "none", phase |-> "none", n |-> 0, name |-> <<>>, at |-> 0,
             since |-> 0, triggered |-> FALSE, result |-> "none",
             tried |-> {}, ok |-> {}, alone |-> TRUE]

\* the status pipe file does not exist and nothing was written to it
NoInbox == [content |-> [file |-> "missing"], written |-> 0]

\* no hook message yet, the listener in use, and the resolver as the awaited
\* refreshCache() of activate left it at time 0
InitEnvironment ==
  /\ hooks = 0
  /\ disposed = FALSE
  /\ inbox = NoInbox
  /\ lastCacheUpdate = 0
  /\ refreshing = {}
  /\ answer = NoAnswer
  /\ calls = 0
  /\ lastRefresh = 0

(***************************************************************************)
(* TerminalListener helpers.                                               *)
(***************************************************************************)
\* a set that adds an entry even when the key is present
OrderedSet_Append(m, k, v) == Append(m, <<k, v>>)

\* Map.set on a Map iterated in insertion order: sequence of <<key, value>>
OrderedSet(m, k, v) ==
  IF \E i \in 1..Len(m) : m[i][1] = k
    THEN [i \in 1..Len(m) |-> IF m[i][1] = k THEN <<k, v>> ELSE m[i]]
    ELSE Append(m, <<k, v>>)

OrderedDelete(m, k) == SelectSeq(m, LAMBDA e : e[1] # k)

OrderedKeys(m) == {m[i][1] : i \in 1..Len(m)}

\* quickPatterns.some(p => data.includes(p))
hasRelevantContent(data) ==
  \E p \in {<<"[", "B", "a", "s", "h", "]">>, <<"[", "R", "e", "a", "d", "]">>,
            <<"[", "W", "r", "i", "t", "e", "]">>,
            <<"[", "S", "k", "i", "l", "l", "]">>,
            <<"[", "A", "g", "e", "n", "t", "]">>,
            <<"[", "s", "k", "i", "l", "l", "]">>,
            <<"[", "a", "g", "e", "n", "t", "]">>,
            <<"[", "P", "l", "a", "n", "]">>, <<"BULLET">>} : Includes(data, p)

\* trimmed.startsWith('> ') || trimmed.match(/^>\s/)
isUserInput(data) ==
  LET trimmed == Trim(data)
  IN  \/ StartsWith(trimmed, <<">", " ">>)
      \/ Len(trimmed) >= 2 /\ trimmed[1] = ">" /\ trimmed[2] \in Space

\* /Done\s*\(\d+\s*tool uses/ at index i
DoneToolUsesAt(s, i) ==
  LET a == SkipSet(s, i + 4, Space)
      b == SkipSet(s, a + 1, Digit)
      c == SkipSet(s, b, Space)
  IN  /\ LitAt(s, i, <<"D", "o", "n", "e">>)
      /\ a <= Len(s) /\ s[a] = "("
      /\ b > a + 1
      /\ LitAt(s, c, <<"t", "o", "o", "l", " ", "u", "s", "e", "s">>)

\* /⎿\s*Done/ at index i
HookDoneAt(s, i) ==
  /\ s[i] = "HOOK"
  /\ LitAt(s, SkipSet(s, i + 1, Space), <<"D", "o", "n", "e">>)

\* endPatterns.some(pattern => pattern.test(event.content))
isEndSignal(content) ==
  \E i \in 1..Len(content) :
    \/ DoneToolUsesAt(content, i)
    \/ LitAt(content, i, <<"F", "i", "n", "i", "s", "h", "e", "d">>)
    \/ LitAtNoCase(content, i, <<"C", "o", "m", "p", "l", "e", "t", "e">>)
    \/ HookDoneAt(content, i)

\* a key made of the content alone
eventKey_ContentOnly(event) == <<"", Substring0(event.content, KeyLength)>>

\* `${event.type}:${event.content?.substring(0, 100)}`
eventKey(event) == <<event.type, Substring0(event.content, KeyLength)>>

\* the window test with <= in place of <
isDuplicate_Inclusive(recent, key, t) ==
  MapHas(recent, key) /\ t - recent[key] <= DUPLICATE_WINDOW

\* lastSeen !== undefined && now - lastSeen < this.DUPLICATE_WINDOW
isDuplicate(recent, key, t) ==
  MapHas(recent, key) /\ t - recent[key] < DUPLICATE_WINDOW

\* deduplicateEvents: the loop over events[i..]; st carries recentEvents, the
\* unique events and, per parsed event, whether it passed
RECURSIVE dedupFrom(_, _, _, _)
dedupFrom(events, i, st, t) ==
  IF i > Len(events) THEN st
  ELSE LET key == eventKey(events[i])
       IN  IF isDuplicate(st.recent, key, t)
             THEN dedupFrom(events, i + 1,
                    [st EXCEPT !.passed = Append(@, FALSE)], t)
             ELSE dedupFrom(events, i + 1,
                    [recent |-> MapSet(st.recent, key, t),
                     unique |-> Append(st.unique, events[i]),
                     passed |-> Append(st.passed, TRUE)], t)

\* a deduplicator that stamps the record of a skipped event too
deduplicateEvents_Refreshing(events, recent, t) ==
  LET d == dedupFrom(events, 1,
                     [recent |-> recent, unique |-> <<>>, passed |-> <<>>], t)
      keys == {eventKey(events[i]) : i \in 1..Len(events)}
  IN  [d EXCEPT !.recent = [k \in DOMAIN d.recent \cup keys |->
                              IF k \in keys THEN t ELSE d.recent[k]]]

\* a deduplicator that hands the skipped events on as well
deduplicateEvents_PassAll(events, recent, t) ==
  [dedupFrom(events, 1, [recent |-> recent, unique |-> <<>>, passed |-> <<>>], t)
     EXCEPT !.unique = events]

deduplicateEvents(events, recent, t) ==
  dedupFrom(events, 1, [recent |-> recent, unique |-> <<>>, passed |-> <<>>], t)

\* a cleanup that keeps a record for one window only
cleanupDuplicateRecords_OneWindow(recent, t) ==
  [k \in {x \in DOMAIN recent : ~(t - recent[x] > DUPLICATE_WINDOW)}
     |-> recent[k]]

\* a cleanup that keeps a record for four windows
cleanupDuplicateRecords_FourWindows(recent, t) ==
  [k \in {x \in DOMAIN recent : ~(t - recent[x] > DUPLICATE_WINDOW * 4)}
     |-> recent[k]]

\* cleanupDuplicateRecords
cleanupDuplicateRecords(recent, t) ==
  [k \in {x \in DOMAIN recent : ~(t - recent[x] > DUPLICATE_WINDOW * 2)}
     |-> recent[k]]

\* a trim that keeps the oldest entry in front of the newest ones
trimBuffer_DropMiddle(buf) ==
  IF Len(buf) > BufferCapacity
    THEN <<buf[1]>> \o SubSeq(buf, Len(buf) - BufferRetain + 2, Len(buf))
    ELSE buf

\* the trim keeping the oldest entries: slice(0, 500)
trimBuffer_KeepOldest(buf) ==
  IF Len(buf) > BufferCapacity THEN SubSeq(buf, 1, BufferRetain) ELSE buf

\* if (this.eventBuffer.length > 1000) this.eventBuffer = this.eventBuffer.slice(-500)
trimBuffer(buf) ==
  IF Len(buf) > BufferCapacity
    THEN SubSeq(buf, Len(buf) - BufferRetain + 1, Len(buf))
    ELSE buf

\* RunningStateManager.getColor
getColor(type) ==
  CASE type = "agent" -> "#10b981"
    [] type = "skill" -> "#8b5cf6"
    [] type = "plugin" -> "#007acc"
    [] type = "mcp" -> "#f59e0b"
    [] OTHER -> "#ffffff"

\* the entry stored with the kind agent whatever the kind reported
startRunning_AsAgent(items, id, name, type, source, t) ==
  MapSet(items, id, [id |-> id, name |-> name, type |-> "agent", startTime |-> t,
                     color |-> getColor("agent"), source |-> source])

\* RunningStateManager.startRunning, called with source 'terminal'
startRunning(items, id, name, type, source, t) ==
  MapSet(items, id, [id |-> id, name |-> name, type |-> type, startTime |-> t,
                     color |-> getColor(type), source |-> source])

\* a stop that drops every item when the id is not running
stopRunning_ClearsUnknown(items, id) ==
  IF MapHas(items, id) THEN MapDelete(items, id) ELSE EmptyMap

\* a stop that keeps the item
stopRunning_Never(items, id) == items

\* RunningStateManager.stopRunning
stopRunning(items, id) == IF MapHas(items, id) THEN MapDelete(items, id) ELSE items

\* a timer handle that no armed timer carries
newHandle(ts) == CHOOSE h \in 1..(Cardinality(ts) + 1) : \A x \in ts : x.h # h

(***************************************************************************)
(* The body of the loop `for (const event of uniqueEvents)` of             *)
(* handleTerminalData.  st carries the fields the loop changes.  The       *)
(* onRunningState callback is the one activate() installs: it forwards to  *)
(* RunningStateManager; notes records its calls.                           *)
(***************************************************************************)
NoTrack == [start |-> -1, stops |-> 0, endSeen |-> FALSE, endStopped |-> FALSE]

\* the id an event starts, Undef when it starts none
startedId(event) ==
  LET k == DetailKey(event.type)
  IN  IF /\ event.type \in {"agent_call", "skill_call", "plugin_call", "mcp_call"}
         /\ k \in DOMAIN event.details
         /\ event.details[k] # <<>>
        THEN event.details[k] ELSE Undef

\* a start that arms no timer
startItem_NoTimer(st, id, type, content, t) ==
  [st EXCEPT
    !.activeIds = OrderedSet(@, id, type),
    !.notes = Append(@, [id |-> id, name |-> content, type |-> type,
                         state |-> "start"]),
    !.runningItems = startRunning(@, id, content, type, "terminal", t),
    !.track = MapSet(@, id, [NoTrack EXCEPT !.start = t])]

\* activeIds.set; setTimeout; activeTimeouts.set; onRunningState(.., 'start')
startItem(st, id, type, content, t) ==
  LET h == newHandle(st.timers)
  IN  [st EXCEPT
        !.activeIds = OrderedSet(@, id, type),
        !.timers = @ \cup {[h |-> h, id |-> id, type |-> type,
                            due |-> t + AGENT_TIMEOUT]},
        !.activeTimeouts = MapSet(@, id, h),
        !.notes = Append(@, [id |-> id, name |-> content, type |-> type,
                             state |-> "start"]),
        !.runningItems = startRunning(@, id, content, type, "terminal", t),
        !.track = MapSet(@, id, [NoTrack EXCEPT !.start = t])]

\* one iteration of `for (const [id, type] of this.activeIds.entries())`
stopActive(st, id, type) ==
  [st EXCEPT
    !.timers = {x \in @ : ~(MapHas(st.activeTimeouts, id)
                            /\ x.h = st.activeTimeouts[id])},
    !.activeTimeouts = MapDelete(@, id),
    !.notes = Append(@, [id |-> id, name |-> <<>>, type |-> type,
                         state |-> "stop"]),
    !.runningItems = stopRunning(@, id),
    !.track = [@ EXCEPT ![id].stops = @ + 1, ![id].endStopped = TRUE]]

RECURSIVE stopAllActive(_, _, _)
stopAllActive(st, entries, i) ==
  IF i > Len(entries) THEN [st EXCEPT !.activeIds = <<>>]
  ELSE stopAllActive(stopActive(st, entries[i][1], entries[i][2]), entries, i + 1)

\* the end-signal check of one event
checkEnd(st, event) ==
  IF event.content # <<>> /\ isEndSignal(event.content)
    THEN LET seen == [st EXCEPT !.track = [x \in DOMAIN @ |->
                                             [@[x] EXCEPT !.endSeen = TRUE]]]
         IN  IF Len(st.activeIds) > 0
               THEN stopAllActive(seen, st.activeIds, 1)
               ELSE seen
    ELSE st

\* the end-signal check ahead of the start
processEvent_EndFirst(st, event, t) ==
  LET id == startedId(event)
      ended == checkEnd(st, event)
      started == IF id # Undef
                   THEN startItem(ended, id, DetailKey(event.type), event.content, t)
                   ELSE ended
  IN  [started EXCEPT
        !.eventBuffer = Append(@, event @@ [seq |-> started.pushed + 1]),
        !.pushed = @ + 1]

processEvent(st, event, t) ==
  LET id == startedId(event)
      started == IF id # Undef
                   THEN startItem(st, id, DetailKey(event.type), event.content, t)
                   ELSE st
      ended == checkEnd(started, event)
  IN  [ended EXCEPT
        !.eventBuffer = Append(@, event @@ [seq |-> ended.pushed + 1]),
        !.pushed = @ + 1]

RECURSIVE processEvents(_, _, _, _)
processEvents(st, events, i, t) ==
  IF i > Len(events) THEN st
  ELSE processEvents(processEvent(st, events[i], t), events, i + 1, t)

\* some line of the chunk carries an end-of-execution phrase
hasEndLine(data) ==
  LET lines == SplitLines(CleanOutput(data))
  IN  \E i \in 1..Len(lines) : isEndSignal(Trim(lines[i]))

SetToSeq(S) ==
  LET RECURSIVE toSeq(_)
      toSeq(T) == IF T = {} THEN <<>>
                  ELSE LET x == CHOOSE y \in T : TRUE
                       IN  <<x>> \o toSeq(T \ {x})
  IN  toSeq(S)

NoObs == [act |-> "none", notes |-> <<>>, parsed |-> <<>>,
          passed |-> <<>>, batch |-> <<>>, seen |-> -1, endLine |-> FALSE,
          activeBefore |-> {}, fired |-> 0, lineAge |-> <<>>, keyAge |-> <<>>]

\* the kind and the first 100 characters of the content of an event
kindAndContent(event) ==
  <<event.type, SubSeq(event.content, 1, IF Len(event.content) < 100
                                           THEN Len(event.content) ELSE 100)>>

\* for the i-th parsed event, the time since an event with the same f-value
\* was last emitted (0 when emitted earlier in this chunk, -1 when never)
ageOf(events, passed, i, f(_), log, t) ==
  IF \E j \in 1..(i - 1) : passed[j] /\ f(events[j]) = f(events[i]) THEN 0
  ELSE IF f(events[i]) \in DOMAIN log THEN t - log[f(events[i])]
  ELSE -1

rawLine(event) == event.details.raw

\* log with the events of a batch entered at time t
logged(log, batch, f(_), t) ==
  [k \in DOMAIN log \cup {f(batch[i]) : i \in 1..Len(batch)}
     |-> IF \E i \in 1..Len(batch) : f(batch[i]) = k THEN t ELSE log[k]]

(***************************************************************************)
(* TerminalListener.handleTerminalData(data), with the callbacks that      *)
(* activate() passes to the listener.                                      *)
(***************************************************************************)
\* a handler that delivers the batch even when it is empty
handleProcessed_AlwaysBatch(o0, p, d, st) ==
  /\ obs' = [o0 EXCEPT
              !.notes = st.notes, !.parsed = p.events,
              !.passed = d.passed, !.batch = d.unique,
              !.seen = Len(st.eventBuffer),
              !.lineAge = [i \in 1..Len(p.events) |->
                 ageOf(p.events, d.passed, i, rawLine, lineLog, now)],
              !.keyAge = [i \in 1..Len(p.events) |->
                 ageOf(p.events, d.passed, i, kindAndContent, keyLog, now)]]
  /\ discoveredMcps' = p.discovered
  /\ cache' = IF Len(d.unique) > 0 /\ p.discovered # {}
                THEN updateDynamicMcps(p.cache, SetToSeq(p.discovered))
                ELSE p.cache
  /\ recentEvents' = cleanupDuplicateRecords(d.recent, now)
  /\ eventBuffer' = trimBuffer(st.eventBuffer)
  /\ activeIds' = st.activeIds
  /\ activeTimeouts' = st.activeTimeouts
  /\ timers' = st.timers
  /\ runningItems' = st.runningItems
  /\ pushed' = st.pushed
  /\ track' = st.track
  /\ lineLog' = logged(lineLog, d.unique, rawLine, now)
  /\ keyLog' = logged(keyLog, d.unique, kindAndContent, now)

\* after the loop: onEvent(uniqueEvents), whose callback syncs the discovered
\* MCPs and reads the whole buffer, then the trim and the dedup cleanup
handleProcessed(o0, p, d, st) ==
  /\ obs' = [o0 EXCEPT
              !.notes = st.notes, !.parsed = p.events,
              !.passed = d.passed, !.batch = d.unique,
              !.seen = IF Len(d.unique) > 0 THEN Len(st.eventBuffer) ELSE -1,
              !.lineAge = [i \in 1..Len(p.events) |->
                 ageOf(p.events, d.passed, i, rawLine, lineLog, now)],
              !.keyAge = [i \in 1..Len(p.events) |->
                 ageOf(p.events, d.passed, i, kindAndContent, keyLog, now)]]
  /\ discoveredMcps' = p.discovered
  /\ cache' = IF Len(d.unique) > 0 /\ p.discovered # {}
                THEN updateDynamicMcps(p.cache, SetToSeq(p.discovered))
                ELSE p.cache
  /\ recentEvents' = cleanupDuplicateRecords(d.recent, now)
  /\ eventBuffer' = trimBuffer(st.eventBuffer)
  /\ activeIds' = st.activeIds
  /\ activeTimeouts' = st.activeTimeouts
  /\ timers' = st.timers
  /\ runningItems' = st.runningItems
  /\ pushed' = st.pushed
  /\ track' = st.track
  /\ lineLog' = logged(lineLog, d.unique, rawLine, now)
  /\ keyLog' = logged(keyLog, d.unique, kindAndContent, now)

\* after deduplicateEvents: the loop over uniqueEvents
handleUnique(o0, p, d) ==
  handleProcessed(o0, p, d,
    processEvents([activeIds |-> activeIds, activeTimeouts |-> activeTimeouts,
                   timers |-> timers, runningItems |-> runningItems,
                   eventBuffer |-> eventBuffer, pushed |-> pushed,
                   notes |-> <<>>, track |-> track],
                  d.unique, 1, now))

\* after parser.parse(data)
handleParsed(o0, p) ==
  IF Len(p.events) = 0
    THEN /\ obs' = o0
         /\ discoveredMcps' = p.discovered
         /\ cache' = p.cache
         /\ UNCHANGED <<eventBuffer, recentEvents, activeIds, activeTimeouts,
                        timers, runningItems, pushed, lineLog, keyLog, track>>
    ELSE handleUnique(o0, p, deduplicateEvents(p.events, recentEvents, now))

\* after the quick filter and the user-input filter
handleFiltered(data, o0) ==
  IF ~hasRelevantContent(data) \/ isUserInput(data)
    THEN /\ obs' = o0
         /\ UNCHANGED <<eventBuffer, recentEvents, activeIds, activeTimeouts,
                        timers, discoveredMcps, cache, runningItems, pushed,
                        lineLog, keyLog, track>>
    ELSE handleParsed(o0, parse(data, cache, discoveredMcps, now))

handleTerminalData(data) ==
  /\ chunks < MaxChunks
  /\ chunks' = chunks + 1
  /\ ~disposed
  /\ UNCHANGED <<now, probe, hostVars, resolverVars>>
  /\ handleFiltered(data, [NoObs EXCEPT !.act = "chunk",
                                        !.endLine = hasEndLine(data),
                                        !.activeBefore = OrderedKeys(activeIds)])

(***************************************************************************)
(* The callback armed by setTimeout in handleTerminalData fires.           *)
(***************************************************************************)
timerFires(x) ==
  /\ x \in timers
  /\ x.due <= now
  /\ timers' = timers \ {x}
  /\ runningItems' = stopRunning(runningItems, x.id)
  /\ activeIds' = OrderedDelete(activeIds, x.id)
  /\ activeTimeouts' = MapDelete(activeTimeouts, x.id)
  /\ track' = [track EXCEPT ![x.id].stops = @ + 1]
  /\ obs' = [NoObs EXCEPT !.act = "timer", !.fired = x.due,
                          !.notes = <<[id |-> x.id, name |-> <<>>,
                                       type |-> x.type, state |-> "stop"]>>]
  /\ UNCHANGED <<now, chunks, eventBuffer, recentEvents, discoveredMcps, cache,
                 pushed, lineLog, keyLog, probe, hostVars, resolverVars>>

(***************************************************************************)
(* TerminalListener.clearEvents, called on the webview's clearEvents       *)
(* message.                                                                *)
(***************************************************************************)
clearEvents ==
  /\ eventBuffer # <<>>
  /\ eventBuffer' = <<>>
  /\ obs' = [NoObs EXCEPT !.act = "clear"]
  /\ UNCHANGED <<now, chunks, recentEvents, activeIds, activeTimeouts, timers,
                 discoveredMcps, cache, runningItems, pushed, lineLog, keyLog,
                 track, probe, hostVars, resolverVars>>

(***************************************************************************)
(* Time passes: to the next tick or to the next timer deadline, whichever  *)
(* comes first.  A timer that is due fires before time moves on.           *)
(***************************************************************************)
Min(S) == CHOOSE m \in S : \A n \in S : m <= n

advanceTime ==
  LET next == Min({now + Tick} \cup {x.due : x \in timers})
  IN  /\ \A x \in timers : x.due > now
      /\ next <= MaxTime
      /\ chunks < MaxChunks \/ timers # {}
      /\ now' = next
      /\ obs' = [NoObs EXCEPT !.act = "tick"]
      /\ UNCHANGED <<chunks, eventBuffer, recentEvents, activeIds,
                     activeTimeouts, timers, discoveredMcps, cache,
                     runningItems, pushed, lineLog, keyLog, track, probe,
                     hostVars, resolverVars>>

(***************************************************************************)
(* ItemTypeResolver.updateCacheIfNeeded as awaited by activate() before    *)
(* the listener is created: the cache rebuilt from what the four sources   *)
(* return (a source that fails contributes nothing).                       *)
(***************************************************************************)
refreshedCache(src) ==
  [k \in ({"mcp"} \X src.mcps) \cup ({"plugin"} \X src.plugins)
           \cup ({"skill"} \X src.skills) \cup ({"agent"} \X src.agents)
     |-> "file"]

(***************************************************************************)
(* Inputs: names, source snapshots and terminal chunks.                    *)
(***************************************************************************)
fo == <<"f", "o">>

ba == <<"b", "a">>

Rt == <<"R", "t">>

NoSources == [mcps |-> {}, plugins |-> {}, skills |-> {}, agents |-> {}]

InitSources ==
  {NoSources,
   [mcps |-> {}, plugins |-> {ba}, skills |-> {}, agents |-> {fo, ba}]}

\* "● fo(Rt)"
ChunkGenericDesc == <<"BULLET", " ">> \o fo \o <<"(">> \o Rt \o <<")">>

\* "● ba(Rt)"
ChunkOtherDesc == <<"BULLET", " ">> \o ba \o <<"(">> \o Rt \o <<")">>

\* "● /fo(Rt)\n"
ChunkSkill == <<"BULLET", " ", "/">> \o fo \o <<"(">> \o Rt \o <<")", "NL">>

\* "●mcp-fo"
ChunkMcp == <<"BULLET", "m", "c", "p", "-">> \o fo

\* "[Bash] Finished"
ChunkToolEnd == <<"[", "B", "a", "s", "h", "]", " ",
                  "F", "i", "n", "i", "s", "h", "e", "d">>

\* "⎿ Done (3 tool uses)"
ChunkDoneLine == <<"HOOK", " ", "D", "o", "n", "e", " ", "(", "3", " ",
                   "t", "o", "o", "l", " ", "u", "s", "e", "s", ")">>

\* "● fo(Rt)\n● fo(Rt)"
ChunkTwice == ChunkGenericDesc \o <<"NL">> \o ChunkGenericDesc

Chunks == {ChunkGenericDesc, ChunkOtherDesc, ChunkSkill, ChunkMcp,
           ChunkToolEnd, ChunkDoneLine, ChunkTwice}

\* "● fo(Rt)\n● /fo(Rt)\n[Bash] Finished"
ChunkThree == ChunkGenericDesc \o <<"NL">> \o ChunkSkill \o ChunkToolEnd

NoProbe == [shape |-> "none", name |-> <<>>, line |-> <<>>, events |-> <<>>,
            done |-> FALSE]

(***************************************************************************)
(* The pipeline: the state after activate(), chunks arriving, timers       *)
(* firing, the webview clearing the history, time passing.                 *)
(***************************************************************************)
Init ==
  /\ now = 0
  /\ InitEnvironment
  /\ chunks = 0
  /\ eventBuffer = <<>>
  /\ recentEvents = EmptyMap
  /\ activeIds = <<>>
  /\ activeTimeouts = EmptyMap
  /\ timers = {}
  /\ discoveredMcps = {}
  /\ \E src \in InitSources : cache = refreshedCache(src)
  /\ runningItems = EmptyMap
  /\ pushed = 0
  /\ obs = NoObs
  /\ lineLog = EmptyMap
  /\ keyLog = EmptyMap
  /\ track = EmptyMap
  /\ probe = NoProbe

Next ==
  \/ \E data \in Chunks : handleTerminalData(data)
  \/ \E x \in timers : timerFires(x)
  \/ advanceTime

Spec == Init /\ [][Next]_vars

(***************************************************************************)
(* The history near its capacity: the listener after 998 to 1000 events    *)
(* that are older than the dedup horizon (the clock is counted from the    *)
(* moment the behaviour starts).                                           *)
(***************************************************************************)
oldEvent(i) ==
  [type |-> "tool_call", timestamp |-> 0, content |-> <<"l", "s">>,
   details |-> [tool |-> <<"B", "a", "s", "h">>,
                raw |-> <<"[", "B", "a", "s", "h", "]", " ", "l", "s">>],
   seq |-> i]

HistChunks == {ChunkSkill, ChunkToolEnd, ChunkThree}

InitHist ==
  /\ now = 0
  /\ InitEnvironment
  /\ chunks = 0
  /\ \E n \in (BufferCapacity - 2)..BufferCapacity :
       /\ eventBuffer = [i \in 1..n |-> oldEvent(i)]
       /\ pushed = n
  /\ recentEvents = EmptyMap
  /\ activeIds = <<>>
  /\ activeTimeouts = EmptyMap
  /\ timers = {}
  /\ discoveredMcps = {}
  /\ cache = refreshedCache(NoSources)
  /\ runningItems = EmptyMap
  /\ obs = NoObs
  /\ lineLog = EmptyMap
  /\ keyLog = EmptyMap
  /\ track = EmptyMap
  /\ probe = NoProbe

NextHist ==
  \/ \E data \in HistChunks : handleTerminalData(data)
  \/ \E x \in timers : timerFires(x)
  \/ clearEvents
  \/ advanceTime

SpecHist == InitHist /\ [][NextHist]_vars

(***************************************************************************)
(* The classifier as a function: OutputParser.parse applied to one line    *)
(* under a resolver cache.  The initial states draw the line (a name, an   *)
(* optional description, white space) and the cache, which registers the   *)
(* name under a set of kinds (from the sources, or as a dynamically        *)
(* observed MCP) next to an entry for another name.                        *)
(***************************************************************************)
ProbeNames == {fo, ba, <<"m", "c", "p">>, <<"a", "-", "b">>, <<"x", "_", "1">>}

ProbeSkillNames == ProbeNames \cup {<<"m", "c", "p", "-">> \o fo}

ProbeDescriptions == {Undef, Rt, <<"a", " ", "b">>, <<"a", "(", "b">>}

ProbeGaps == {<<>>, <<" ">>, <<" ", "TAB">>}

parenthesized(desc) == IF desc = Undef THEN <<>> ELSE <<"(">> \o desc \o <<")">>

\* bullet + bare identifier [+ (description)]
genericLine(gap, name, desc) == <<"BULLET">> \o gap \o name \o parenthesized(desc)

\* bullet + slash-prefixed name [+ (description)]
skillLine(gap1, gap2, name, desc) ==
  <<"BULLET">> \o gap1 \o <<"/">> \o gap2 \o name \o parenthesized(desc)

probeCache(name, kinds, dynamic) ==
  LET of(k) == IF k \in kinds THEN {name} ELSE {}
      base == refreshedCache([mcps |-> IF dynamic THEN {} ELSE of("mcp"),
                              plugins |-> of("plugin") \cup {<<"z", "z">>},
                              skills |-> of("skill"),
                              agents |-> of("agent")])
  IN  IF dynamic /\ "mcp" \in kinds
        THEN updateDynamicMcps(base, <<name>>) ELSE base

probeInput(shape, name, line) ==
  [shape |-> shape, name |-> name, line |-> line, events |-> <<>>, done |-> FALSE]

InitParse ==
  /\ now = 0
  /\ InitEnvironment
  /\ chunks = 0
  /\ eventBuffer = <<>>
  /\ recentEvents = EmptyMap
  /\ activeIds = <<>>
  /\ activeTimeouts = EmptyMap
  /\ timers = {}
  /\ discoveredMcps = {}
  /\ runningItems = EmptyMap
  /\ pushed = 0
  /\ obs = NoObs
  /\ lineLog = EmptyMap
  /\ keyLog = EmptyMap
  /\ track = EmptyMap
  /\ \E desc \in ProbeDescriptions, gap \in ProbeGaps,
        kinds \in SUBSET ItemTypes, dynamic \in BOOLEAN :
       \/ \E name \in ProbeNames :
            /\ cache = probeCache(name, kinds, dynamic)
            /\ probe = probeInput("generic", name, genericLine(gap, name, desc))
       \/ \E name \in ProbeSkillNames, gap2 \in {<<>>, <<" ">>} :
            /\ cache = probeCache(name, kinds, dynamic)
            /\ probe = probeInput("skill", name, skillLine(gap, gap2, name, desc))

\* parser.parse(line) on the probe line, with the side effects of the call
parseProbe(shape) ==
  /\ probe.shape = shape
  /\ ~probe.done
  /\ LET r == parse(<<" ">> \o probe.line \o <<"NL">>, cache, discoveredMcps, now)
     IN  /\ probe' = [probe EXCEPT !.events = r.events, !.done = TRUE]
         /\ cache' = r.cache
         /\ discoveredMcps' = r.discovered
  /\ UNCHANGED <<now, chunks, eventBuffer, recentEvents, activeIds,
                 activeTimeouts, timers, runningItems, pushed, obs, lineLog,
                 keyLog, track, hostVars, resolverVars>>

parseGeneric == parseProbe("generic")

parseSkill == parseProbe("skill")

NextParse == parseGeneric \/ parseSkill

SpecParse == InitParse /\ [][NextParse]_vars

(***************************************************************************)
(* The hook channel: the status callback that activate() registers with    *)
(* HookStateReceiver forwards each status to                               *)
(* RunningStateManager.handleHookStatus.  The timestamp field of a status  *)
(* is not read and is left out.                                            *)
(***************************************************************************)
HookStatuses ==
  {[event |-> e, agentId |-> id, agentName |-> <<"N">> \o id,
    type |-> IF id = fo THEN "skill" ELSE "agent"] :
     e \in {"START", "STOP"}, id \in {fo, ba}}

handleHookStatus(status) ==
  /\ hooks < MaxHooks
  /\ hooks' = hooks + 1
  /\ runningItems' =
       IF status.event = "START"
         THEN startRunning(runningItems, status.agentId, status.agentName,
                           status.type, "hook", now)
       ELSE IF status.event = "STOP"
         THEN stopRunning(runningItems, status.agentId)
       ELSE runningItems
  /\ obs' = [NoObs EXCEPT
              !.act = "hook",
              !.notes = <<[id |-> status.agentId, name |-> status.agentName,
                           type |-> status.type,
                           state |-> IF status.event = "START" THEN "start"
                                     ELSE "stop"]>>,
              !.activeBefore = DOMAIN runningItems]
  /\ UNCHANGED <<now, chunks, eventBuffer, recentEvents, activeIds,
                 activeTimeouts, timers, discoveredMcps, cache, pushed, lineLog,
                 keyLog, track, probe, disposed, inbox, resolverVars>>

HookChunks == {ChunkGenericDesc, ChunkToolEnd}

NextHook ==
  \/ \E data \in HookChunks : handleTerminalData(data)
  \/ \E x \in timers : timerFires(x)
  \/ \E status \in HookStatuses : handleHookStatus(status)
  \/ advanceTime

SpecHook == Init /\ [][NextHook]_vars

(***************************************************************************)
(* HookStateReceiver.  JSON.parse(additionalContext) is modelled on texts  *)
(* without nesting, arrays and escapes: a scalar, or an object whose       *)
(* member values are scalars.  A value is a record with its kind; a text   *)
(* outside the grammar is a SyntaxError.                                   *)
(***************************************************************************)
JsonError == [kind |-> "error"]

JsonNull == [kind |-> "null"]

JsonBool(b) == [kind |-> "bool", bool |-> b]

JsonNumber(digits) == [kind |-> "number", digits |-> digits]

JsonString(chars) == [kind |-> "string", chars |-> chars]

JsonObject(members) == [kind |-> "object", members |-> members]

\* s[i] opens a string: the index of the quote that closes it, 0 when the
\* string is not closed on its line or holds an escape
JsonStringEnd(s, i) ==
  LET j == FindSet(s, i + 1, {"\"", "\\", "TAB"} \cup LineTerm)
  IN  IF j <= Len(s) /\ s[j] = "\"" THEN j ELSE 0

\* the scalar that starts at s[i], and the index after it
JsonScalarAt(s, i) ==
  LET d == SkipSet(s, i, Digit)
      e == IF i <= Len(s) /\ s[i] = "\"" THEN JsonStringEnd(s, i) ELSE 0
      no == [ok |-> FALSE, value |-> JsonError, next |-> i]
  IN  IF LitAt(s, i, <<"n", "u", "l", "l">>)
        THEN [ok |-> TRUE, value |-> JsonNull, next |-> i + 4]
      ELSE IF LitAt(s, i, <<"t", "r", "u", "e">>)
        THEN [ok |-> TRUE, value |-> JsonBool(TRUE), next |-> i + 4]
      ELSE IF LitAt(s, i, <<"f", "a", "l", "s", "e">>)
        THEN [ok |-> TRUE, value |-> JsonBool(FALSE), next |-> i + 5]
      ELSE IF d > i
        THEN IF s[i] = "0" /\ d > i + 1 THEN no
             ELSE [ok |-> TRUE, value |-> JsonNumber(SubSeq(s, i, d - 1)),
                   next |-> d]
      ELSE IF e > 0
        THEN [ok |-> TRUE, value |-> JsonString(SubSeq(s, i + 1, e - 1)),
              next |-> e + 1]
      ELSE no

\* the members of an object from s[i] on, a key being expected at s[i]
RECURSIVE JsonMembers(_, _, _)
JsonMembers(s, i, members) ==
  LET k == SkipSet(s, i, Space)
      ke == IF k <= Len(s) /\ s[k] = "\"" THEN JsonStringEnd(s, k) ELSE 0
      c == SkipSet(s, ke + 1, Space)
      v == JsonScalarAt(s, SkipSet(s, c + 1, Space))
      n == SkipSet(s, v.next, Space)
      all == MapSet(members, SubSeq(s, k + 1, ke - 1), v.value)
  IN  IF ke = 0 \/ c > Len(s) THEN JsonError
      ELSE IF s[c] # ":" \/ ~v.ok \/ n > Len(s) THEN JsonError
      ELSE IF s[n] = "}" THEN IF n = Len(s) THEN JsonObject(all) ELSE JsonError
      ELSE IF s[n] = "," THEN JsonMembers(s, n + 1, all)
      ELSE JsonError

\* JSON.parse(text)
JsonParse(text) ==
  LET s == Trim(text)
      i == SkipSet(s, 2, Space)
      v == JsonScalarAt(s, 1)
  IN  IF s = <<>> THEN JsonError
      ELSE IF s[1] = "{"
        THEN IF i <= Len(s) /\ s[i] = "}"
               THEN IF i = Len(s) THEN JsonObject(EmptyMap) ELSE JsonError
               ELSE JsonMembers(s, 2, EmptyMap)
      ELSE IF v.ok /\ v.next = Len(s) + 1 THEN v.value
      ELSE JsonError

\* the value converted to a boolean, as `if (status)` and `!status` do
truthy(v) ==
  CASE v.kind = "object" -> TRUE
    [] v.kind = "string" -> v.chars # <<>>
    [] v.kind = "number" -> v.digits # <<"0">>
    [] v.kind = "bool" -> v.bool
    [] OTHER -> FALSE

\* the property key of a parsed value, as text (Undef when it is missing or
\* is not text)
property(v, key) ==
  IF v.kind # "object" THEN Undef
  ELSE IF ~MapHas(v.members, key) THEN Undef
  ELSE IF v.members[key].kind = "string" THEN v.members[key].chars
  ELSE IF v.members[key].kind = "number" THEN v.members[key].digits
  ELSE Undef

\* the field `event` as handleHookStatus compares it
eventOf(chars) ==
  IF chars = <<"S", "T", "A", "R", "T">> THEN "START"
  ELSE IF chars = <<"S", "T", "O", "P">> THEN "STOP"
  ELSE "other"

\* the field `type` as getColor compares it
typeOf(chars) ==
  IF chars = <<"a", "g", "e", "n", "t">> THEN "agent"
  ELSE IF chars = <<"s", "k", "i", "l", "l">> THEN "skill"
  ELSE IF chars = <<"p", "l", "u", "g", "i", "n">> THEN "plugin"
  ELSE IF chars = <<"m", "c", "p">> THEN "mcp"
  ELSE "other"

\* the HookStatus that a truthy JSON.parse(additionalContext) is used as
statusOf(v) ==
  [event |-> eventOf(property(v, <<"e", "v", "e", "n", "t">>)),
   agentId |-> property(v, <<"a", "g", "e", "n", "t", "I", "d">>),
   agentName |-> property(v, <<"a", "g", "e", "n", "t", "N", "a", "m", "e">>),
   type |-> typeOf(property(v, <<"t", "y", "p", "e">>))]

\* message.match(/(\w+)\s+word/): the first group of the leftmost match
wordBefore(message, word) ==
  LET starts == {i \in 1..Len(message) :
                   /\ message[i] \in WordCh
                   /\ LET e == SkipSet(message, i, WordCh)
                          w == SkipSet(message, e, Space)
                      IN  w > e /\ LitAt(message, w, word)}
      first == Min(starts)
  IN  IF starts = {} THEN NoMatch
      ELSE [matched |-> TRUE,
            g1 |-> SubSeq(message, first, SkipSet(message, first, WordCh) - 1)]

\* a fallback that looks for a skill before it looks for an agent
parseSystemMessage_SkillFirst(event, message) ==
  LET eventType == IF event = "SubagentStart" THEN "START" ELSE "STOP"
      agentMatch == wordBefore(message, <<"a", "g", "e", "n", "t">>)
      skillMatch == wordBefore(message, <<"s", "k", "i", "l", "l">>)
      pluginMatch == wordBefore(message, <<"p", "l", "u", "g", "i", "n">>)
      found(m, type) == [found |-> TRUE,
                         status |-> [event |-> eventType, agentId |-> m.g1,
                                     agentName |-> m.g1, type |-> type]]
  IN  IF skillMatch.matched THEN found(skillMatch, "skill")
      ELSE IF agentMatch.matched THEN found(agentMatch, "agent")
      ELSE IF pluginMatch.matched THEN found(pluginMatch, "plugin")
      ELSE [found |-> FALSE]

\* HookStateReceiver.parseSystemMessage
parseSystemMessage(event, message) ==
  LET eventType == IF event = "SubagentStart" THEN "START" ELSE "STOP"
      agentMatch == wordBefore(message, <<"a", "g", "e", "n", "t">>)
      skillMatch == wordBefore(message, <<"s", "k", "i", "l", "l">>)
      pluginMatch == wordBefore(message, <<"p", "l", "u", "g", "i", "n">>)
      found(m, type) == [found |-> TRUE,
                         status |-> [event |-> eventType, agentId |-> m.g1,
                                     agentName |-> m.g1, type |-> type]]
  IN  IF agentMatch.matched THEN found(agentMatch, "agent")
      ELSE IF skillMatch.matched THEN found(skillMatch, "skill")
      ELSE IF pluginMatch.matched THEN found(pluginMatch, "plugin")
      ELSE [found |-> FALSE]

\* the present, non-empty text: `if (additionalContext)`, `&& systemMessage`
given(text) == text # Undef /\ text # <<>>

\* readAndProcessStatus up to the callback: the status handed to the callback,
\* if any.  content.file tells what fs.access, readFile and the outer
\* JSON.parse make of the file: missing, blank, partial (a SyntaxError) or json
receivedStatus(content) ==
  LET none == [found |-> FALSE]
      parsed == IF given(content.additionalContext)
                  THEN JsonParse(content.additionalContext) ELSE JsonError
  IN  IF content.file # "json" THEN none
      ELSE IF ~content.hasOutput THEN none
      ELSE IF content.hookEventName \notin {"SubagentStart", "SubagentStop"}
        THEN none
      ELSE IF parsed # JsonError /\ truthy(parsed)
        THEN [found |-> TRUE, status |-> statusOf(parsed)]
      ELSE IF given(content.systemMessage)
        THEN parseSystemMessage(content.hookEventName, content.systemMessage)
      ELSE none

\* one tick of the 500 ms interval: readAndProcessStatus and the callback.
\* The file is left as it is
pollInbox ==
  LET r == receivedStatus(inbox.content)
  IN  IF r.found THEN handleHookStatus(r.status)
      ELSE /\ obs' = [NoObs EXCEPT !.act = "poll"]
           /\ UNCHANGED <<now, chunks, eventBuffer, recentEvents, activeIds,
                          activeTimeouts, timers, discoveredMcps, cache,
                          runningItems, pushed, lineLog, keyLog, track, probe,
                          hostVars, resolverVars>>

\* a hook script replaces the content of the status pipe file
writeInbox(content) ==
  /\ inbox.written < MaxWrites
  /\ inbox' = [content |-> content, written |-> inbox.written + 1]
  /\ obs' = [NoObs EXCEPT !.act = "write"]
  /\ UNCHANGED <<now, chunks, eventBuffer, recentEvents, activeIds,
                 activeTimeouts, timers, discoveredMcps, cache, runningItems,
                 pushed, lineLog, keyLog, track, probe, hooks, disposed,
                 resolverVars>>

(***************************************************************************)
(* The hook inbox: payloads that parse, payloads that do not, free text    *)
(* that names an item and free text that names none.                       *)
(***************************************************************************)
quoted(chars) == <<"\"">> \o chars \o <<"\"">>

member(key, chars) == quoted(key) \o <<":">> \o quoted(chars)

\* {"event":"...","agentId":"...","agentName":"...","type":"..."}
statusText(event, id, type) ==
  <<"{">> \o member(<<"e", "v", "e", "n", "t">>, event) \o <<",", " ">>
    \o member(<<"a", "g", "e", "n", "t", "I", "d">>, id) \o <<",">>
    \o member(<<"a", "g", "e", "n", "t", "N", "a", "m", "e">>, <<"N">> \o id)
    \o <<",">> \o member(<<"t", "y", "p", "e">>, type) \o <<" ", "}">>

StartText == <<"S", "T", "A", "R", "T">>

StopText == <<"S", "T", "O", "P">>

AgentText == <<"a", "g", "e", "n", "t">>

SkillText == <<"s", "k", "i", "l", "l">>

PluginText == <<"p", "l", "u", "g", "i", "n">>

\* the payloads of additionalContext
ContextTexts ==
  {Undef, <<>>,
   statusText(StartText, fo, AgentText),
   statusText(StopText, fo, AgentText),
   <<"{">> \o member(<<"e", "v", "e", "n", "t">>, StartText),
   <<"{", "}">>,
   <<"n", "u", "l", "l">>}

\* the free texts of systemMessage
SystemMessages ==
  {Undef,
   <<"u", "s", "e", " ">> \o fo \o <<" ">> \o AgentText,
   ba \o <<" ">> \o SkillText \o <<",", " ">> \o fo \o <<" ", " ">> \o AgentText,
   <<"a", " ">> \o ba \o <<" ">> \o PluginText,
   AgentText \o <<" ">> \o fo}

hookOutput(name, context, message) ==
  [file |-> "json", hasOutput |-> TRUE, hookEventName |-> name,
   additionalContext |-> context, systemMessage |-> message]

InboxContents ==
  {[file |-> "blank"], [file |-> "partial"],
   [file |-> "json", hasOutput |-> FALSE],
   hookOutput("PreToolUse", statusText(StartText, fo, AgentText), Undef)}
  \cup {hookOutput(name, context, message) :
          name \in {"SubagentStart", "SubagentStop"},
          context \in ContextTexts, message \in SystemMessages}

NextInbox ==
  \/ \E content \in InboxContents : writeInbox(content)
  \/ pollInbox

SpecInbox == Init /\ [][NextInbox]_vars

(***************************************************************************)
(* The hook inbox next to the terminal channel: a hook script writes a     *)
(* START or a STOP of fo, the interval polls, chunks arrive and timers     *)
(* fire.                                                                   *)
(***************************************************************************)
RepollContents ==
  {hookOutput("SubagentStart", statusText(StartText, fo, AgentText), Undef),
   hookOutput("SubagentStop", statusText(StopText, fo, AgentText), Undef)}

NextRepoll ==
  \/ \E content \in RepollContents : writeInbox(content)
  \/ pollInbox
  \/ \E data \in HookChunks : handleTerminalData(data)
  \/ \E x \in timers : timerFires(x)
  \/ advanceTime

SpecRepoll == Init /\ [][NextRepoll]_vars

(***************************************************************************)
(* ItemTypeResolver.resolveType and refreshCache as asynchronous calls.    *)
(* updateCacheIfNeeded runs from the call to its first await in one step,  *)
(* and from the return of one source to the await of the next in one step. *)
(* A source either returns its entries or fails; what it returns does not  *)
(* change.  Several calls may be awaiting at once.                         *)
(***************************************************************************)
ResolverSources ==
  [mcps |-> {fo}, plugins |-> {ba}, skills |-> {Rt}, agents |-> {fo, ba}]

sourceNames(type) ==
  CASE type = "mcp" -> ResolverSources.mcps
    [] type = "plugin" -> ResolverSources.plugins
    [] type = "skill" -> ResolverSources.skills
    [] OTHER -> ResolverSources.agents

\* the name looked up: cached under two kinds
ResolveNames == {fo}

\* now - this.lastCacheUpdate <= this.CACHE_TTL
cacheIsValid_Inclusive(t, last) == t - last <= CACHE_TTL

\* now - this.lastCacheUpdate < this.CACHE_TTL
cacheIsValid(t, last) == t - last < CACHE_TTL

\* the loop `for (const x of xs) this.cache.set(...)` of one source inside its
\* try block; the catch block of a source that failed only logs
insertFetched(c, type, outcome) ==
  IF outcome = "ok"
    THEN LET ks == {type} \X sourceNames(type)
         IN  [k \in DOMAIN c \cup ks |-> IF k \in ks THEN "file" ELSE c[k]]
    ELSE c

\* a failure that ends the refresh instead of being caught
nextSource_AbortOnFailure(type, outcome) ==
  IF outcome = "fail" THEN "done"
  ELSE CASE type = "mcp" -> "plugin"
         [] type = "plugin" -> "skill"
         [] type = "skill" -> "agent"
         [] OTHER -> "done"

\* the try/catch blocks follow each other: whatever the outcome of a source,
\* the next one is fetched
nextSource(type, outcome) ==
  CASE type = "mcp" -> "plugin"
    [] type = "plugin" -> "skill"
    [] type = "skill" -> "agent"
    [] OTHER -> "done"

\* a lookup that prefers a skill entry to a plugin entry
resolveFrom_SkillOverPlugin(c, name) ==
  LET types == {k[1] : k \in {x \in DOMAIN c : x[2] = name}}
  IN  IF LitAt(name, 1, <<"/">>) THEN "skill"
      ELSE IF LitAt(name, 1, <<"m", "c", "p", "-">>) THEN "mcp"
      ELSE IF "mcp" \in types THEN "mcp"
      ELSE IF "skill" \in types THEN "skill"
      ELSE IF "plugin" \in types THEN "plugin"
      ELSE IF "agent" \in types THEN "agent"
      ELSE "unknown"

\* resolveType after `await this.updateCacheIfNeeded()`
resolveFrom(c, name) ==
  LET types == {k[1] : k \in {x \in DOMAIN c : x[2] = name}}
  IN  IF LitAt(name, 1, <<"/">>) THEN "skill"
      ELSE IF LitAt(name, 1, <<"m", "c", "p", "-">>) THEN "mcp"
      ELSE IF "mcp" \in types THEN "mcp"
      ELSE IF "plugin" \in types THEN "plugin"
      ELSE IF "skill" \in types THEN "skill"
      ELSE IF "agent" \in types THEN "agent"
      ELSE "unknown"

\* a refresh that merges into the cache instead of rebuilding it
updateCacheIfNeeded_NoClear(op, name, last) ==
  LET called == [NoAnswer EXCEPT !.act = op, !.n = calls + 1, !.name = name,
                                 !.at = now, !.since = now - lastRefresh]
  IN  /\ lastCacheUpdate' = last
      /\ lastRefresh' = lastRefresh
      /\ cache' = cache
      /\ IF cacheIsValid(now, last)
           THEN /\ refreshing' = refreshing
                /\ answer' = [called EXCEPT
                               !.phase = "returned",
                               !.result = IF op = "resolveType"
                                            THEN resolveFrom(cache, name)
                                            ELSE "none"]
           ELSE /\ refreshing' =
                     {[r EXCEPT !.alone = FALSE] : r \in refreshing}
                     \cup {[n |-> calls + 1, op |-> op, name |-> name,
                            started |-> now, pc |-> "mcp", tried |-> {},
                            ok |-> {}, alone |-> refreshing = {}]}
                /\ answer' = [called EXCEPT !.phase = "awaiting",
                                            !.triggered = TRUE]

\* updateCacheIfNeeded up to its first await, with lastCacheUpdate = last
updateCacheIfNeeded(op, name, last) ==
  LET called == [NoAnswer EXCEPT !.act = op, !.n = calls + 1, !.name = name,
                                 !.at = now, !.since = now - lastRefresh]
  IN  /\ lastCacheUpdate' = last
      /\ lastRefresh' = lastRefresh
      /\ IF cacheIsValid(now, last)
           THEN /\ cache' = cache
                /\ refreshing' = refreshing
                /\ answer' = [called EXCEPT
                               !.phase = "returned",
                               !.result = IF op = "resolveType"
                                            THEN resolveFrom(cache, name)
                                            ELSE "none"]
           ELSE /\ cache' = EmptyMap
                /\ refreshing' =
                     {[r EXCEPT !.alone = FALSE] : r \in refreshing}
                     \cup {[n |-> calls + 1, op |-> op, name |-> name,
                            started |-> now, pc |-> "mcp", tried |-> {},
                            ok |-> {}, alone |-> refreshing = {}]}
                /\ answer' = [called EXCEPT !.phase = "awaiting",
                                            !.triggered = TRUE]

resolveType(name) ==
  /\ calls < MaxCalls
  /\ calls' = calls + 1
  /\ updateCacheIfNeeded("resolveType", name, lastCacheUpdate)
  /\ UNCHANGED <<now, chunks, eventBuffer, recentEvents, activeIds,
                 activeTimeouts, timers, discoveredMcps, runningItems, pushed,
                 obs, lineLog, keyLog, track, probe, hostVars>>

\* this.lastCacheUpdate = 0; await this.updateCacheIfNeeded()
refreshCache ==
  /\ calls < MaxCalls
  /\ calls' = calls + 1
  /\ updateCacheIfNeeded("refreshCache", <<>>, 0)
  /\ UNCHANGED <<now, chunks, eventBuffer, recentEvents, activeIds,
                 activeTimeouts, timers, discoveredMcps, runningItems, pushed,
                 obs, lineLog, keyLog, track, probe, hostVars>>

\* the source the call r awaits returns or fails: its entries are inserted,
\* and either the next source is awaited or the call stamps the cache with
\* the time it captured at its start and returns to its caller
sourceReturns(r, outcome) ==
  LET c == insertFetched(cache, r.pc, outcome)
      pc == nextSource(r.pc, outcome)
      tried == r.tried \cup {r.pc}
      ok == IF outcome = "ok" THEN r.ok \cup {r.pc} ELSE r.ok
      called == [NoAnswer EXCEPT !.act = r.op, !.n = r.n, !.name = r.name,
                                 !.at = r.started, !.triggered = TRUE,
                                 !.tried = tried, !.ok = ok, !.alone = r.alone]
  IN  /\ r \in refreshing
      /\ cache' = c
      /\ IF pc = "done"
           THEN /\ refreshing' = refreshing \ {r}
                /\ lastCacheUpdate' = r.started
                /\ lastRefresh' = r.started
                /\ answer' = [called EXCEPT
                               !.phase = "completed",
                               !.result = IF r.op = "resolveType"
                                            THEN resolveFrom(c, r.name)
                                            ELSE "none"]
           ELSE /\ refreshing' = (refreshing \ {r})
                     \cup {[r EXCEPT !.pc = pc, !.tried = tried, !.ok = ok]}
                /\ answer' = [called EXCEPT !.phase = "fetching"]
                /\ UNCHANGED <<lastCacheUpdate, lastRefresh>>
      /\ UNCHANGED <<now, chunks, eventBuffer, recentEvents, activeIds,
                     activeTimeouts, timers, discoveredMcps, runningItems,
                     pushed, obs, lineLog, keyLog, track, probe, hostVars,
                     calls>>

passTime ==
  /\ now + ResolverTick <= MaxResolverTime
  /\ now' = now + ResolverTick
  /\ answer' = [NoAnswer EXCEPT !.act = "tick"]
  /\ UNCHANGED <<chunks, eventBuffer, recentEvents, activeIds, activeTimeouts,
                 timers, discoveredMcps, cache, runningItems, pushed, obs,
                 lineLog, keyLog, track, probe, hostVars, lastCacheUpdate,
                 refreshing, calls, lastRefresh>>

\* the time of activation: Date.now() is at least one cache lifetime
Epoch == CACHE_TTL

\* the refreshCache() awaited by activate started and ended at Epoch with
\* every source returning
InitResolver ==
  /\ now = Epoch
  /\ hooks = 0
  /\ disposed = FALSE
  /\ inbox = NoInbox
  /\ lastCacheUpdate = Epoch
  /\ lastRefresh = Epoch
  /\ refreshing = {}
  /\ answer = NoAnswer
  /\ calls = 0
  /\ chunks = 0
  /\ eventBuffer = <<>>
  /\ recentEvents = EmptyMap
  /\ activeIds = <<>>
  /\ activeTimeouts = EmptyMap
  /\ timers = {}
  /\ discoveredMcps = {}
  /\ cache = refreshedCache(ResolverSources)
  /\ runningItems = EmptyMap
  /\ pushed = 0
  /\ obs = NoObs
  /\ lineLog = EmptyMap
  /\ keyLog = EmptyMap
  /\ track = EmptyMap
  /\ probe = NoProbe

NextResolver ==
  \/ \E name \in ResolveNames : resolveType(name)
  \/ refreshCache
  \/ \E r \in refreshing : \E outcome \in {"ok", "fail"} : sourceReturns(r, outcome)
  \/ passTime

SpecResolver == InitResolver /\ [][NextResolver]_vars

(***************************************************************************)
(* The listener long after the refresh that activate() awaited.  That      *)
(* refresh ran before ba was added to the plugin source, and nothing calls *)
(* the resolver afterwards.                                                *)
(***************************************************************************)
StaleChunks == {ChunkOtherDesc, ChunkToolEnd}

\* the clock runs one tick further than the resolver's horizon
StaleHorizon == MaxResolverTime + ResolverTick

\* time passes to the next resolver tick or timer deadline
idleTime ==
  LET next == Min({now + ResolverTick} \cup {x.due : x \in timers})
  IN  /\ \A x \in timers : x.due > now
      /\ next <= StaleHorizon
      /\ now' = next
      /\ obs' = [NoObs EXCEPT !.act = "tick"]
      /\ answer' = [NoAnswer EXCEPT !.act = "tick"]
      /\ UNCHANGED <<chunks, eventBuffer, recentEvents, activeIds,
                     activeTimeouts, timers, discoveredMcps, cache,
                     runningItems, pushed, lineLog, keyLog, track, probe,
                     hostVars, lastCacheUpdate, refreshing, calls, lastRefresh>>

\* the listener and the managers as activate() creates them at Epoch, with
\* the cache c
InitAt(c) ==
  /\ now = Epoch
  /\ hooks = 0
  /\ disposed = FALSE
  /\ inbox = NoInbox
  /\ lastCacheUpdate = Epoch
  /\ lastRefresh = Epoch
  /\ refreshing = {}
  /\ answer = NoAnswer
  /\ calls = 0
  /\ chunks = 0
  /\ eventBuffer = <<>>
  /\ recentEvents = EmptyMap
  /\ activeIds = <<>>
  /\ activeTimeouts = EmptyMap
  /\ timers = {}
  /\ discoveredMcps = {}
  /\ cache = c
  /\ runningItems = EmptyMap
  /\ pushed = 0
  /\ obs = NoObs
  /\ lineLog = EmptyMap
  /\ keyLog = EmptyMap
  /\ track = EmptyMap
  /\ probe = NoProbe

InitStale == InitAt(refreshedCache(NoSources))

NextStale ==
  \/ \E data \in StaleChunks : handleTerminalData(data)
  \/ \E x \in timers : timerFires(x)
  \/ idleTime

SpecStale == InitStale /\ [][NextStale]_vars

(***************************************************************************)
(* The listener while refreshes started by calls of refreshCache are       *)
(* awaiting their sources.  The refresh of activate() found ba listed as a *)
(* plugin and as an agent, the sources still list it, and no source fails. *)
(***************************************************************************)
RaceChunks == {ChunkOtherDesc}

InitRace == InitAt(refreshedCache(ResolverSources))

NextRace ==
  \/ \E data \in RaceChunks : handleTerminalData(data)
  \/ \E x \in timers : timerFires(x)
  \/ refreshCache
  \/ \E r \in refreshing : sourceReturns(r, "ok")
  \/ idleTime

SpecRace == InitRace /\ [][NextRace]_vars

(***************************************************************************)
(* The registry on its own: refreshes, lookups and dynamic updates.  The   *)
(* snapshot of activate() was taken from sources that have changed since   *)
(* (ba is no longer a skill, fo no longer the only agent), and an MCP      *)
(* server Rt was observed in the terminal afterwards.                      *)
(***************************************************************************)
PreviousSources ==
  [mcps |-> {}, plugins |-> {ba}, skills |-> {ba}, agents |-> {fo}]

PreviousSnapshot ==
  updateDynamicMcps(refreshedCache(PreviousSources), <<Rt>>)

\* the arguments of updateDynamicMcps: a name cached from the MCP source, a
\* name cached as a dynamic entry, a name not cached as an MCP
DynamicNames == {<<fo>>, <<Rt>>, <<ba, fo>>}

\* a call of updateDynamicMcps, as the parser and the batch callback make it
markDynamic(mcps) ==
  /\ calls < MaxCalls
  /\ calls' = calls + 1
  /\ cache' = updateDynamicMcps(cache, mcps)
  /\ refreshing' = {[r EXCEPT !.alone = FALSE] : r \in refreshing}
  /\ answer' = [NoAnswer EXCEPT !.act = "dynamic", !.n = calls + 1,
                                !.name = mcps, !.at = now]
  /\ UNCHANGED <<now, chunks, eventBuffer, recentEvents, activeIds,
                 activeTimeouts, timers, discoveredMcps, runningItems, pushed,
                 obs, lineLog, keyLog, track, probe, hostVars,
                 lastCacheUpdate, lastRefresh>>

InitRegistry == InitAt(PreviousSnapshot)

NextRegistry ==
  \/ \E name \in ResolveNames : resolveType(name)
  \/ refreshCache
  \/ \E r \in refreshing : \E outcome \in {"ok", "fail"} : sourceReturns(r, outcome)
  \/ \E mcps \in DynamicNames : markDynamic(mcps)
  \/ passTime

SpecRegistry == InitRegistry /\ [][NextRegistry]_vars

(***************************************************************************)
(* The pipeline on chunks that mix user input, plan steps and markers.     *)
(***************************************************************************)
\* a plan step alone
ChunkPlanStep == <<"CHECK", " ", "1", ".", " ">> \o fo

\* a line of user input, then a marker
ChunkUserThenMarker == <<">", " ", "h", "i", "NL">> \o ChunkGenericDesc

\* a marker, then a line of user input that quotes a marker
ChunkMarkerThenUser == ChunkGenericDesc \o <<"NL", ">", " ">> \o ChunkOtherDesc

\* a line of user input that quotes a tool line
ChunkUserOnly == <<">", " ">> \o ChunkToolEnd

FilterChunks == {ChunkPlanStep, ChunkUserThenMarker, ChunkMarkerThenUser,
                 ChunkUserOnly}

NextFilter ==
  \/ \E data \in FilterChunks : handleTerminalData(data)
  \/ \E x \in timers : timerFires(x)
  \/ advanceTime

SpecFilter == Init /\ [][NextFilter]_vars

(***************************************************************************)
(* The pipeline on chunks that follow each other closely: repeats inside   *)
(* the dedup window, and content that classifies as nothing.               *)
(***************************************************************************)
\* a bullet without a name, a cut escape sequence, a tool tag without text
ChunkOdd == <<"BULLET", "(", ")", "NL", "ESC", "[", "NL",
              "[", "B", "a", "s", "h", "]">>

CloseChunks == {ChunkGenericDesc, ChunkOtherDesc, ChunkOdd}

shortWait ==
  LET next == Min({now + Moment} \cup {x.due : x \in timers})
  IN  /\ \A x \in timers : x.due > now
      /\ next <= MaxTime
      /\ chunks < MaxChunks \/ timers # {}
      /\ now' = next
      /\ obs' = [NoObs EXCEPT !.act = "tick"]
      /\ UNCHANGED <<chunks, eventBuffer, recentEvents, activeIds,
                     activeTimeouts, timers, discoveredMcps, cache,
                     runningItems, pushed, lineLog, keyLog, track, probe,
                     hostVars, resolverVars>>

NextClose ==
  \/ \E data \in CloseChunks : handleTerminalData(data)
  \/ \E x \in timers : timerFires(x)
  \/ shortWait

SpecClose == Init /\ [][NextClose]_vars

(***************************************************************************)
(* resolveType as a function of the name and the registry: the registry of *)
(* the initial state holds the names fo and mcp-fo under sets of kinds and *)
(* is fresh, so that a lookup is answered at once.                         *)
(***************************************************************************)
McpFo == <<"m", "c", "p", "-">> \o fo

LookupNames == {fo, ba, McpFo, <<"/">> \o fo}

LookupCaches ==
  {[k \in (kinds \X {fo}) \cup (others \X {McpFo}) |-> "file"] :
     kinds \in SUBSET ItemTypes,
     others \in {{}, {"agent"}, {"skill", "agent"}}}

InitLookup == \E c \in LookupCaches : InitAt(c)

NextLookup == \E name \in LookupNames : resolveType(name)

SpecLookup == InitLookup /\ [][NextLookup]_vars

(***************************************************************************)
(* The pipeline with the clock running on: however late a timer was armed, *)
(* the time it is due comes and its callback runs.                         *)
(***************************************************************************)
LiveChunks == {ChunkGenericDesc, ChunkOtherDesc, ChunkToolEnd}

\* time passes to the next timer deadline
awaitTimer ==
  /\ timers # {}
  /\ \A x \in timers : x.due > now
  /\ now' = Min({x.due : x \in timers})
  /\ obs' = [NoObs EXCEPT !.act = "tick"]
  /\ UNCHANGED <<chunks, eventBuffer, recentEvents, activeIds,
                 activeTimeouts, timers, discoveredMcps, cache,
                 runningItems, pushed, lineLog, keyLog, track, probe,
                 hostVars, resolverVars>>

timerDue == \E x \in timers : timerFires(x)

NextLive ==
  \/ \E data \in LiveChunks : handleTerminalData(data)
  \/ timerDue
  \/ advanceTime
  \/ awaitTimer

SpecLive ==
  Init /\ [][NextLive]_vars /\ WF_vars(timerDue) /\ WF_vars(awaitTimer)

(***************************************************************************)
(* Starts whose own description carries an end-of-execution phrase.        *)
(***************************************************************************)
\* "● fo(Complete)"
ChunkSelfEnd == <<"BULLET", " ">> \o fo \o
                <<"(", "C", "o", "m", "p", "l", "e", "t", "e", ")">>

\* "● fo(Complete)\n● fo(Rt)"
ChunkEndThenStart == ChunkSelfEnd \o <<"NL">> \o ChunkGenericDesc

SelfEndChunks == {ChunkSelfEnd, ChunkOtherDesc, ChunkEndThenStart}

NextSelfEnd ==
  \/ \E data \in SelfEndChunks : handleTerminalData(data)
  \/ \E x \in timers : timerFires(x)
  \/ advanceTime

SpecSelfEnd == Init /\ [][NextSelfEnd]_vars

(***************************************************************************)
(* parseLine on one line of each shape, under registries that know the     *)
(* names on the line or not.                                               *)
(***************************************************************************)
CascadeLines ==
  {<<"BULLET", " ", "/">> \o fo,
   <<"BULLET", " ">> \o McpFo,
   <<"BULLET", " ", "m", "c", "p", "_">> \o fo \o <<"(">> \o Rt \o <<")">>,
   <<"BULLET", " ", "m", "c", "p", ":">> \o fo,
   ChunkGenericDesc,
   <<"BULLET">> \o ba,
   <<"BULLET", " ">> \o fo \o <<" ">> \o ba,
   <<"[", "s", "k", "i", "l", "l", "]", " ">> \o fo \o <<":", " ">> \o Rt,
   <<"[", "a", "g", "e", "n", "t", "]", " ">> \o fo \o <<":", " ">> \o Rt,
   <<"[", "S", "k", "i", "l", "l", "]", " ">> \o fo \o <<":", " ">> \o Rt,
   <<"[", "B", "a", "s", "h", "]", " ", "l", "s">>,
   <<"[", "b", "a", "s", "h", "]", " ", "l", "s">>,
   ChunkPlanStep,
   <<"BOX", " ">> \o fo,
   <<"CHECK">> \o fo,
   fo \o <<"t", "o", "_", "r", "e", "s", "u", "l", "t", "_">> \o ba,
   <<">", " ">> \o ChunkGenericDesc,
   fo \o <<" ">> \o ba}

CascadeCaches ==
  {refreshedCache(NoSources),
   refreshedCache([NoSources EXCEPT !.plugins = {fo, McpFo}]),
   refreshedCache([NoSources EXCEPT !.skills = {fo, ba}, !.agents = {fo}]),
   updateDynamicMcps(refreshedCache([NoSources EXCEPT !.agents = {ba}]), <<fo>>)}

InitCascade ==
  /\ now = 0
  /\ InitEnvironment
  /\ chunks = 0
  /\ eventBuffer = <<>>
  /\ recentEvents = EmptyMap
  /\ activeIds = <<>>
  /\ activeTimeouts = EmptyMap
  /\ timers = {}
  /\ discoveredMcps = {}
  /\ runningItems = EmptyMap
  /\ pushed = 0
  /\ obs = NoObs
  /\ lineLog = EmptyMap
  /\ keyLog = EmptyMap
  /\ track = EmptyMap
  /\ cache \in CascadeCaches
  /\ \E line \in CascadeLines : probe = probeInput("line", <<>>, line)

parseAnyLine == parseProbe("line")

NextCascade == parseAnyLine

SpecCascade == InitCascade /\ [][NextCascade]_vars

(***************************************************************************)
(* TerminalListener.dispose: the terminal-data subscription is disposed,   *)
(* so no chunk is handled afterwards; nothing else is touched.  The        *)
(* setTimeout callbacks armed before are still run by the host.            *)
(***************************************************************************)
dispose ==
  /\ ~disposed
  /\ disposed' = TRUE
  /\ obs' = [NoObs EXCEPT !.act = "dispose"]
  /\ UNCHANGED <<now, chunks, eventBuffer, recentEvents, activeIds,
                 activeTimeouts, timers, discoveredMcps, cache, runningItems,
                 pushed, lineLog, keyLog, track, probe, hooks, inbox,
                 resolverVars>>

DisposeChunks == {ChunkGenericDesc, ChunkOtherDesc, ChunkToolEnd}

NextDispose ==
  \/ \E data \in DisposeChunks : handleTerminalData(data)
  \/ \E x \in timers : timerFires(x)
  \/ dispose
  \/ advanceTime

SpecDispose == Init /\ [][NextDispose]_vars

(***************************************************************************)
(* The MCP marker: a line bullet + "mcp" + one of - _ : + server name      *)
(* [+ (description)] is parsed under a drawn cache, and then the generic   *)
(* line "bullet name" is parsed under the cache the first call left.       *)
(***************************************************************************)
McpSeparators == {"-", "_", ":"}

mcpLine(gap, sep, name, desc) ==
  <<"BULLET">> \o gap \o <<"m", "c", "p", sep>> \o name \o parenthesized(desc)

InitMcp ==
  /\ now = 0
  /\ InitEnvironment
  /\ chunks = 0
  /\ eventBuffer = <<>>
  /\ recentEvents = EmptyMap
  /\ activeIds = <<>>
  /\ activeTimeouts = EmptyMap
  /\ timers = {}
  /\ discoveredMcps = {}
  /\ runningItems = EmptyMap
  /\ pushed = 0
  /\ obs = NoObs
  /\ lineLog = EmptyMap
  /\ keyLog = EmptyMap
  /\ track = EmptyMap
  /\ \E name \in ProbeNames, desc \in ProbeDescriptions, gap \in ProbeGaps,
        sep \in McpSeparators, kinds \in SUBSET ItemTypes, dynamic \in BOOLEAN :
       /\ cache = probeCache(name, kinds, dynamic)
       /\ probe = probeInput("mcp", name, mcpLine(gap, sep, name, desc))

parseMcp == parseProbe("mcp")

\* a later chunk "bullet name" for the server name of the MCP line
parseLater ==
  /\ probe.shape = "mcp"
  /\ probe.done
  /\ LET line == genericLine(<<" ">>, probe.name, Undef)
         r == parse(line, cache, discoveredMcps, now)
     IN  /\ probe' = [shape |-> "later", name |-> probe.name, line |-> line,
                      events |-> r.events, done |-> TRUE]
         /\ cache' = r.cache
         /\ discoveredMcps' = r.discovered
  /\ UNCHANGED <<now, chunks, eventBuffer, recentEvents, activeIds,
                 activeTimeouts, timers, runningItems, pushed, obs, lineLog,
                 keyLog, track, hostVars, resolverVars>>

NextMcp == parseMcp \/ parseLater

SpecMcp == InitMcp /\ [][NextMcp]_vars

(***************************************************************************)
(* Observations used by the properties.                                    *)
(***************************************************************************)
\* the ids for which the last step emitted a stop notification
stoppedNow == {obs.notes[i].id : i \in {j \in 1..Len(obs.notes) :
                                          obs.notes[j].state = "stop"}}

\* the ids for which the last step emitted a start notification
startedNow == {obs.notes[i].id : i \in {j \in 1..Len(obs.notes) :
                                          obs.notes[j].state = "start"}}

\* the id the timer of the last step stopped
firedId == obs.notes[1].id

armedFor(id) == {x \in timers : x.id = id}

\* the handle maps agree: an id is active iff a handle is registered for it,
\* and a registered handle belongs to an armed timer of that id
HandlesConsistent ==
  /\ DOMAIN activeTimeouts = OrderedKeys(activeIds)
  /\ \A id \in DOMAIN activeTimeouts :
       \E x \in armedFor(id) : x.h = activeTimeouts[id]
  /\ \A x, y \in timers : x.h = y.h => x = y

(***************************************************************************)
(* C1.  An id X started at time t, with no end-of-execution phrase and no  *)
(* further start of X afterwards, gets exactly one stop notification, at   *)
(* t + 10000 ms, and is not active afterwards.                             *)
(***************************************************************************)
C1_OneStopAtTimeout ==
  (obs.act = "timer" /\ ~track[firedId].endSeen) =>
     /\ now = track[firedId].start + AGENT_TIMEOUT
     /\ track[firedId].stops = 1
     /\ firedId \notin OrderedKeys(activeIds)

(***************************************************************************)
(* C2.  A start of an id that is already active cancels the timeout armed  *)
(* before and arms a new one: every armed timer is the one registered for  *)
(* its id, and a timer that fires is the one of the most recent start.     *)
(***************************************************************************)
C2_RestartCancelsPrevious ==
  /\ \A x \in timers :
       MapHas(activeTimeouts, x.id) /\ activeTimeouts[x.id] = x.h
  /\ obs.act = "timer" => obs.fired = track[firedId].start + AGENT_TIMEOUT

(***************************************************************************)
(* C3.  An end-of-execution phrase detected while ids are active stops     *)
(* every one of them in that pass and cancels their timeouts: an id        *)
(* stopped by an end signal is not active, has no armed timer, and gets no *)
(* stop notification from a timer unless it is started again.              *)
(***************************************************************************)
C3_EndSignalCancelsTimeout ==
  /\ \A id \in DOMAIN track :
       track[id].endStopped =>
         id \notin OrderedKeys(activeIds) /\ armedFor(id) = {}
  /\ obs.act = "timer" => ~track[firedId].endStopped

(***************************************************************************)
(* C4.  A chunk with an end-of-execution phrase line, processed while ids  *)
(* are active, stops every active id in that pass and leaves no id active, *)
(* whether or not the line is classified as an event.                      *)
(***************************************************************************)
C4_EndLineStopsAll ==
  (obs.act = "chunk" /\ obs.endLine /\ obs.activeBefore # {}) =>
     /\ obs.activeBefore \subseteq stoppedNow
     /\ activeIds = <<>>

(***************************************************************************)
(* C5 as stated.  A line processed again is emitted exactly when 3000 ms   *)
(* or more have passed since an event parsed from that line was last       *)
(* emitted.                                                                *)
(***************************************************************************)
C5_SameLineOncePerWindow ==
  obs.act = "chunk" =>
    \A i \in 1..Len(obs.parsed) :
      obs.lineAge[i] >= 0 => (obs.passed[i] <=> obs.lineAge[i] >= DUPLICATE_WINDOW)

(***************************************************************************)
(* C5 amended.  An event whose kind and content (first 100 characters)     *)
(* were emitted before is emitted again exactly when 3000 ms or more have  *)
(* passed since the last emission of an event with that kind and content.  *)
(***************************************************************************)
C5_SameKeyOncePerWindow ==
  obs.act = "chunk" =>
    \A i \in 1..Len(obs.parsed) :
      obs.keyAge[i] >= 0 => (obs.passed[i] <=> obs.keyAge[i] >= DUPLICATE_WINDOW)

\* a chunk carries the same line twice after the window has passed since the
\* last emission of its kind and content: the first is emitted, the second
\* is suppressed
C5_Witness ==
  /\ obs.act = "chunk"
  /\ \E i, j \in 1..Len(obs.parsed) :
       /\ i < j
       /\ rawLine(obs.parsed[i]) = rawLine(obs.parsed[j])
       /\ obs.keyAge[i] >= DUPLICATE_WINDOW /\ obs.passed[i]
       /\ obs.keyAge[j] = 0 /\ ~obs.passed[j]

(***************************************************************************)
(* C6 as stated.  An event is suppressed only if an event parsed from an   *)
(* identical line was emitted less than 3000 ms earlier.                   *)
(***************************************************************************)
C6_SuppressedOnlyIfSameLine ==
  obs.act = "chunk" =>
    \A i \in 1..Len(obs.parsed) :
      ~obs.passed[i] =>
        obs.lineAge[i] >= 0 /\ obs.lineAge[i] < DUPLICATE_WINDOW

(***************************************************************************)
(* C6 amended.  An event is suppressed only if an event of the same kind   *)
(* with the same content (first 100 characters) was emitted less than      *)
(* 3000 ms earlier; events that differ in kind or content are all emitted. *)
(***************************************************************************)
C6_SuppressedOnlyIfSameKey ==
  obs.act = "chunk" =>
    \A i \in 1..Len(obs.parsed) :
      ~obs.passed[i] =>
        obs.keyAge[i] >= 0 /\ obs.keyAge[i] < DUPLICATE_WINDOW

\* an event is suppressed in a chunk that arrives after the one that emitted
\* its kind and content, inside the window
C6_Witness ==
  /\ obs.act = "chunk"
  /\ \E i \in 1..Len(obs.parsed) :
       /\ ~obs.passed[i]
       /\ obs.keyAge[i] > 0
       /\ obs.lineAge[i] = -1

(***************************************************************************)
(* C7.  When the pushes of a chunk take the history over 1000 events, the  *)
(* history after the chunk is the 500 events pushed last, in the order     *)
(* they were pushed.                                                       *)
(***************************************************************************)
C7_TrimKeepsLast500 ==
  (obs.act = "chunk" /\ obs.seen > BufferCapacity) =>
     /\ Len(eventBuffer) = BufferRetain
     /\ \A i \in 1..Len(eventBuffer) :
          eventBuffer[i].seq = pushed - BufferRetain + i

\* the 1001st event arrives alone in its chunk: 500 remain, the oldest 501
\* are gone
C7_Witness ==
  /\ obs.act = "chunk"
  /\ obs.seen = BufferCapacity + 1
  /\ Len(obs.batch) = 1
  /\ Len(eventBuffer) = BufferRetain
  /\ eventBuffer[1].seq = BufferCapacity - BufferRetain + 2

(***************************************************************************)
(* C8.  getEvents() never returns more than 1000 events, also when it is   *)
(* called from the batch-of-new-events callback.                           *)
(***************************************************************************)
C8_CallbackSeesAtMostCapacity == obs.seen <= BufferCapacity

(***************************************************************************)
(* C9.  A line "bullet + bare identifier [+ (description)]" yields exactly *)
(* one event, whose kind is the kind under which the registry holds the    *)
(* name when there is one such kind, the first of MCP, Plugin, Skill,      *)
(* Agent when there are several, and agent-call when there is none.        *)
(***************************************************************************)
registeredKinds(c, name) == {k \in ItemTypes : <<k, name>> \in DOMAIN c}

expectedKind(kinds) ==
  IF kinds = {} THEN "agent"
  ELSE IF Cardinality(kinds) = 1 THEN CHOOSE k \in kinds : TRUE
  ELSE LET order == <<"mcp", "plugin", "skill", "agent">>
           first == CHOOSE i \in 1..4 :
                      order[i] \in kinds /\ \A j \in 1..(i - 1) : order[j] \notin kinds
       IN  order[first]

callOf ==
  [mcp |-> "mcp_call", plugin |-> "plugin_call", skill |-> "skill_call",
   agent |-> "agent_call"]

C9_GenericNameByRegistry ==
  (probe.shape = "generic" /\ probe.done) =>
    /\ Len(probe.events) = 1
    /\ LET kind == expectedKind(registeredKinds(cache, probe.name))
           event == probe.events[1]
       IN  /\ event.type = callOf[kind]
           /\ kind \in DOMAIN event.details
           /\ event.details[kind] = probe.name

\* a name registered as plugin, skill and agent is classified as a plugin-call
C9_Witness ==
  /\ probe.shape = "generic"
  /\ probe.done
  /\ registeredKinds(cache, probe.name) = {"plugin", "skill", "agent"}
  /\ Len(probe.events) = 1
  /\ probe.events[1].type = "plugin_call"

(***************************************************************************)
(* C10.  A line "bullet + slash-prefixed name [+ (description)]" yields a  *)
(* skill-call whose details.skill is the name, whatever the registry       *)
(* holds for that name.                                                    *)
(***************************************************************************)
C10_SlashNameIsSkill ==
  (probe.shape = "skill" /\ probe.done) =>
    /\ Len(probe.events) = 1
    /\ probe.events[1].type = "skill_call"
    /\ probe.events[1].details.skill = probe.name

\* a slash-prefixed name that the registry holds as an MCP and as a plugin
C10_Witness ==
  /\ probe.shape = "skill"
  /\ probe.done
  /\ {"mcp", "plugin"} \subseteq registeredKinds(cache, probe.name)
  /\ Len(probe.events) = 1
  /\ probe.events[1].type = "skill_call"
  /\ probe.events[1].details.skill = probe.name

(***************************************************************************)
(* C11.  A line "bullet + mcp prefix + server name [+ (description)]"      *)
(* yields an mcp-call for the server name whatever the registry holds;     *)
(* afterwards the registry holds the server name as an MCP entry of origin *)
(* dynamic, and the generic line "bullet + server name" yields an          *)
(* mcp-call.                                                               *)
(***************************************************************************)
C11_McpPrefixRegisters ==
  /\ (probe.shape = "mcp" /\ probe.done) =>
       /\ Len(probe.events) = 1
       /\ probe.events[1].type = "mcp_call"
       /\ probe.events[1].details.mcp = probe.name
       /\ MapHas(cache, <<"mcp", probe.name>>)
       /\ cache[<<"mcp", probe.name>>] = "dynamic"
       /\ probe.name \in getCachedMcps(cache)
  /\ probe.shape = "later" =>
       /\ Len(probe.events) = 1
       /\ probe.events[1].type = "mcp_call"
       /\ probe.events[1].details.mcp = probe.name

\* the server name was registered as a plugin and an agent only; after the MCP
\* line the generic line with that name is an mcp-call
C11_Witness ==
  /\ probe.shape = "later"
  /\ {"plugin", "agent", "mcp"} = registeredKinds(cache, probe.name)
  /\ cache[<<"mcp", probe.name>>] = "dynamic"
  /\ Len(probe.events) = 1
  /\ probe.events[1].type = "mcp_call"

(***************************************************************************)
(* C12.  Every emitted agent-call, skill-call, plugin-call or mcp-call     *)
(* event produces, in the order of emission, a start notification with the *)
(* event's name as id, its content as display name and its kind; an id     *)
(* whose last notification of the pass is a start is then held active with *)
(* that kind and display name by the listener and by the running-state     *)
(* manager.                                                                *)
(***************************************************************************)
kindOfCall ==
  [agent_call |-> "agent", skill_call |-> "skill", plugin_call |-> "plugin",
   mcp_call |-> "mcp"]

isStartEvent(event) == event.type \in DOMAIN kindOfCall

expectedStart(event) ==
  [id |-> event.details[kindOfCall[event.type]], name |-> event.content,
   type |-> kindOfCall[event.type], state |-> "start"]

isStartNote(note) == note.state = "start"

\* the index of the last notification of the pass that concerns id (0: none)
lastNoteOf(id) ==
  LET is == {i \in 1..Len(obs.notes) : obs.notes[i].id = id}
  IN  IF is = {} THEN 0 ELSE CHOOSE i \in is : \A j \in is : j <= i

C12_StartEventActivates ==
  obs.act = "chunk" =>
    LET starts == SelectSeq(obs.batch, isStartEvent)
    IN  /\ SelectSeq(obs.notes, isStartNote)
             = [i \in 1..Len(starts) |-> expectedStart(starts[i])]
        /\ \A i \in 1..Len(obs.notes) :
             (obs.notes[i].state = "start" /\ lastNoteOf(obs.notes[i].id) = i) =>
               /\ MapHas(runningItems, obs.notes[i].id)
               /\ runningItems[obs.notes[i].id].type = obs.notes[i].type
               /\ runningItems[obs.notes[i].id].name = obs.notes[i].name
               /\ \E k \in 1..Len(activeIds) :
                    activeIds[k] = <<obs.notes[i].id, obs.notes[i].type>>

\* the chunk "bullet /fo(Rt)" has made fo active with kind skill and display
\* name Rt
C12_Witness ==
  /\ obs.act = "chunk"
  /\ Len(obs.batch) = 1
  /\ obs.batch[1].type = "skill_call"
  /\ obs.batch[1].details.skill = fo
  /\ obs.batch[1].content = Rt
  /\ MapHas(runningItems, fo)
  /\ runningItems[fo].type = "skill"
  /\ runningItems[fo].name = Rt
  /\ <<fo, "skill">> \in {activeIds[k] : k \in 1..Len(activeIds)}

(***************************************************************************)
(* C13.  The listener and the running-state manager hold at most one entry *)
(* per id; after a start of an id, from the terminal or from the hook      *)
(* channel, the manager's entry for the id carries the start time, display *)
(* name, kind and source of that start.                                    *)
(***************************************************************************)
C13_OneItemPerId ==
  /\ \A i, j \in 1..Len(activeIds) : activeIds[i][1] = activeIds[j][1] => i = j
  /\ \A id \in DOMAIN runningItems : runningItems[id].id = id
  /\ \A i \in 1..Len(obs.notes) :
       (obs.notes[i].state = "start" /\ lastNoteOf(obs.notes[i].id) = i) =>
         /\ MapHas(runningItems, obs.notes[i].id)
         /\ runningItems[obs.notes[i].id].name = obs.notes[i].name
         /\ runningItems[obs.notes[i].id].type = obs.notes[i].type
         /\ runningItems[obs.notes[i].id].startTime = now
         /\ runningItems[obs.notes[i].id].source =
              (IF obs.act = "hook" THEN "hook" ELSE "terminal")

\* an id started from the terminal and still active there is started again by
\* a hook report of another kind, later
C13_Witness ==
  /\ obs.act = "hook"
  /\ obs.notes[1].state = "start"
  /\ obs.notes[1].id \in obs.activeBefore
  /\ \E k \in 1..Len(activeIds) :
       activeIds[k][1] = obs.notes[1].id /\ activeIds[k][2] # obs.notes[1].type
  /\ runningItems[obs.notes[1].id].source = "hook"
  /\ runningItems[obs.notes[1].id].startTime > 0
  /\ Cardinality(DOMAIN runningItems) = 1

(***************************************************************************)
(* C14.  An item started by a hook START report and not stopped by a       *)
(* report is stopped 10000 ms after its start, as a terminal-started item  *)
(* is: no hook-started item is running later than that.                    *)
(***************************************************************************)
C14_HookItemTimesOut ==
  \A id \in DOMAIN runningItems :
    runningItems[id].source = "hook" =>
      now <= runningItems[id].startTime + AGENT_TIMEOUT

(***************************************************************************)
(* C15.  A pass whose last processed event carries an end-of-execution     *)
(* phrase and starts nothing leaves no item running, whichever channel     *)
(* started it.                                                             *)
(***************************************************************************)
endsWithEndSignal(batch) ==
  /\ Len(batch) > 0
  /\ isEndSignal(batch[Len(batch)].content)
  /\ startedId(batch[Len(batch)]) = Undef

C15_EndSignalStopsBothChannels ==
  (obs.act = "chunk" /\ endsWithEndSignal(obs.batch)) =>
     /\ activeIds = <<>>
     /\ runningItems = EmptyMap

(***************************************************************************)
(* C16.  A stop reported for an id that is not running, by a hook STOP     *)
(* report or by a timer, changes neither the running items nor the active  *)
(* ids; a start reported for an id that is running or active replaces the  *)
(* entry of the id and adds none.                                          *)
(***************************************************************************)
reportedId == obs'.notes[1].id

C16_Step ==
  /\ (hooks' # hooks /\ obs'.notes[1].state = "stop"
        /\ ~MapHas(runningItems, reportedId)) =>
       (runningItems' = runningItems /\ activeIds' = activeIds)
  /\ (obs'.act = "timer" /\ ~MapHas(runningItems, reportedId)) =>
       runningItems' = runningItems
  /\ (hooks' # hooks /\ obs'.notes[1].state = "start"
        /\ MapHas(runningItems, reportedId)) =>
       /\ DOMAIN runningItems' = DOMAIN runningItems
       /\ runningItems'[reportedId].name = obs'.notes[1].name
       /\ runningItems'[reportedId].source = "hook"
  /\ (obs'.act = "chunk" /\ Len(obs'.notes) = 1
        /\ obs'.notes[1].state = "start"
        /\ reportedId \in OrderedKeys(activeIds)) =>
       /\ Len(activeIds') = Len(activeIds)
       /\ OrderedKeys(activeIds') = OrderedKeys(activeIds)
       /\ DOMAIN runningItems' = DOMAIN runningItems \cup {reportedId}
       /\ runningItems'[reportedId].source = "terminal"

startedEarlier(notes, i) ==
  \E j \in 1..(i - 1) : notes[j].id = notes[i].id

notedLater(notes, i) ==
  \E j \in (i + 1)..Len(notes) : notes[j].id = notes[i].id

C17_Step ==
  obs'.act \in {"timer", "chunk"} =>
    \A i \in 1..Len(obs'.notes) :
      /\ (obs'.notes[i].state = "stop" /\ ~startedEarlier(obs'.notes, i)) =>
           /\ MapHas(runningItems, obs'.notes[i].id)
           /\ obs'.notes[i].name = runningItems[obs'.notes[i].id].name
           /\ obs'.notes[i].type = runningItems[obs'.notes[i].id].type
      /\ (obs'.notes[i].state = "start" /\ ~notedLater(obs'.notes, i)) =>
           /\ MapHas(runningItems', obs'.notes[i].id)
           /\ obs'.notes[i].name = runningItems'[obs'.notes[i].id].name
           /\ obs'.notes[i].type = runningItems'[obs'.notes[i].id].type

C17_NotificationCarriesItem == [][C17_Step]_vars

(***************************************************************************)
(* C18.  Once the listener is disposed no timeout is armed, the active-id, *)
(* timeout and dedup maps are empty, and no timer callback or chunk        *)
(* handler runs: no stop notification is emitted after dispose.            *)
(***************************************************************************)
C18_DisposeCancelsAll ==
  disposed =>
    /\ timers = {}
    /\ activeIds = <<>>
    /\ activeTimeouts = EmptyMap
    /\ recentEvents = EmptyMap
    /\ obs.act \notin {"timer", "chunk"}

(***************************************************************************)
(* C19.  A refresh that returns to its caller has fetched all four         *)
(* sources, whichever of them failed; when no other refresh ran while it   *)
(* did, the registry then holds exactly the entries of the sources that    *)
(* returned, and the refresh is stamped with its start time.  A failure    *)
(* never ends the call: every call that awaits reaches its return.         *)
(***************************************************************************)
succeeded(ok) ==
  [mcps |-> IF "mcp" \in ok THEN ResolverSources.mcps ELSE {},
   plugins |-> IF "plugin" \in ok THEN ResolverSources.plugins ELSE {},
   skills |-> IF "skill" \in ok THEN ResolverSources.skills ELSE {},
   agents |-> IF "agent" \in ok THEN ResolverSources.agents ELSE {}]

C19_FailureIsolated ==
  answer.phase = "completed" =>
    /\ answer.tried = ItemTypes
    /\ answer.alone =>
         /\ cache = refreshedCache(succeeded(answer.ok))
         /\ lastCacheUpdate = answer.at
         /\ answer.act = "resolveType" =>
              answer.result = resolveFrom(refreshedCache(succeeded(answer.ok)),
                                          answer.name)

\* a lookup's refresh in which the plugin source alone failed has returned
C19_Witness ==
  /\ answer.phase = "completed"
  /\ answer.act = "resolveType"
  /\ answer.alone
  /\ answer.ok = ItemTypes \ {"plugin"}
  /\ getCachedPlugins(cache) = {}
  /\ getCachedAgents(cache) = ResolverSources.agents
  /\ getCachedMcps(cache) = ResolverSources.mcps

(***************************************************************************)
(* C20 as stated.  A call of resolveType starts a refresh exactly when     *)
(* 30000 ms or more have passed since the last refresh, and a call that    *)
(* starts none is answered from the cache as it is.                        *)
(***************************************************************************)
C20_RefreshIffTtlElapsed ==
  (answer.act = "resolveType" /\ answer.phase \in {"returned", "awaiting"}) =>
     /\ answer.triggered <=> answer.since >= CACHE_TTL
     /\ ~answer.triggered => answer.result = resolveFrom(cache, answer.name)

(***************************************************************************)
(* C20, amended.  A call of resolveType starts a refresh exactly when      *)
(* 30000 ms or more separate it from the stamp of the cache.  The stamp is *)
(* the start time of the refresh that returned last, or 0 from a call of   *)
(* refreshCache until a refresh returns, and that call is then still       *)
(* awaiting.  So a lookup made 30000 ms or more after the last refresh     *)
(* starts one, and a lookup that starts none is made less than 30000 ms    *)
(* after the last refresh and is answered from the cache as it is.         *)
(***************************************************************************)
C20_RefreshIffStampExpired ==
  /\ lastCacheUpdate \in {0, lastRefresh}
  /\ lastCacheUpdate = 0 => \E r \in refreshing : r.op = "refreshCache"
  /\ (answer.act = "resolveType" /\ answer.phase \in {"returned", "awaiting"}) =>
       /\ answer.triggered <=> answer.at - lastCacheUpdate >= CACHE_TTL
       /\ answer.since >= CACHE_TTL => answer.triggered
       /\ ~answer.triggered =>
            /\ answer.since < CACHE_TTL
            /\ answer.result = resolveFrom(cache, answer.name)

\* a lookup made while a refreshCache call is awaiting, less than 30000 ms
\* after the last refresh, has started a refresh of its own
C20_Witness ==
  /\ answer.act = "resolveType"
  /\ answer.phase = "awaiting"
  /\ answer.triggered
  /\ answer.since < CACHE_TTL
  /\ lastCacheUpdate = 0
  /\ Cardinality(refreshing) = 2

(***************************************************************************)
(* C21.  A chunk with a generic bulleted name that is classified more than *)
(* 30000 ms after the last refresh of the registry triggers a refresh: one *)
(* is awaiting a source after the pass, or has been stamped with the time  *)
(* of the pass.                                                            *)
(***************************************************************************)
C21_StaleLookupRefreshes ==
  (obs.act = "chunk" /\ Len(obs.parsed) > 0
     /\ now - lastRefresh > CACHE_TTL) =>
    (refreshing # {} \/ lastCacheUpdate = now)

(***************************************************************************)
(* C22.  A chunk handled while a refresh is awaiting a source is           *)
(* classified from the registry as it was before the refresh: ba, which    *)
(* every earlier refresh registered as a plugin and which the plugin       *)
(* source still lists, gives a plugin call.                                *)
(***************************************************************************)
C22_LookupDuringRefreshSeesSnapshot ==
  (obs.act = "chunk" /\ refreshing # {}) =>
    \A i \in 1..Len(obs.parsed) :
      obs.parsed[i].details.name = ba => obs.parsed[i].type = "plugin_call"

(***************************************************************************)
(* C23.  After a refresh that returned, with no other refresh and no       *)
(* dynamic update while it ran, the registry holds exactly the entries the *)
(* sources returned to it, all with origin file: an entry of the snapshot  *)
(* before, dynamic or not, that no source returned is gone.                *)
(***************************************************************************)
returnedEntries(ok) == UNION {{type} \X sourceNames(type) : type \in ok}

C23_RefreshReplaces ==
  (answer.phase = "completed" /\ answer.alone) =>
     /\ DOMAIN cache = returnedEntries(answer.ok)
     /\ \A k \in DOMAIN cache : cache[k] = "file"
     /\ \A k \in DOMAIN PreviousSnapshot \ returnedEntries(answer.ok) :
          ~MapHas(cache, k)

\* the first refresh after the snapshot of activate() returned with every
\* source answering: the skill ba and the dynamic MCP Rt are gone
C23_Witness ==
  /\ answer.phase = "completed"
  /\ answer.alone
  /\ answer.n = 1
  /\ answer.ok = ItemTypes
  /\ MapHas(PreviousSnapshot, <<"skill", ba>>)
  /\ PreviousSnapshot[<<"mcp", Rt>>] = "dynamic"
  /\ ~MapHas(cache, <<"skill", ba>>)
  /\ ~MapHas(cache, <<"mcp", Rt>>)
  /\ MapHas(cache, <<"plugin", ba>>)

(***************************************************************************)
(* C24.  When refreshes overlapped and all have returned, the one started  *)
(* last returning last, the registry is what that refresh alone would have *)
(* produced: exactly the entries its sources returned.                     *)
(***************************************************************************)
C24_LatestRefreshWins ==
  (answer.phase = "completed" /\ ~answer.alone /\ refreshing = {}
     /\ answer.n = calls) =>
    cache = refreshedCache(succeeded(answer.ok))

(***************************************************************************)
(* C25.  A call of updateDynamicMcps(names) writes the entry mcp__name     *)
(* with origin dynamic for each of the names, leaves every other entry as  *)
(* it was, and leaves the stamp of the last refresh alone: the TTL test    *)
(* gives what it gave before.                                              *)
(***************************************************************************)
written(mcps) == {<<"mcp", mcps[i]>> : i \in 1..Len(mcps)}

C25_Step ==
  (calls' # calls /\ answer'.act = "dynamic") =>
     /\ DOMAIN cache' = DOMAIN cache \cup written(answer'.name)
     /\ \A k \in written(answer'.name) : cache'[k] = "dynamic"
     /\ \A k \in DOMAIN cache \ written(answer'.name) : cache'[k] = cache[k]
     /\ lastCacheUpdate' = lastCacheUpdate
     /\ refreshing' # {} <=> refreshing # {}
     /\ cacheIsValid(now', lastCacheUpdate') <=> cacheIsValid(now, lastCacheUpdate)

C25_DynamicUpdateFrame == [][C25_Step]_vars

\* a dynamic update overwrote the entry of the MCP source for fo and added
\* one for ba, next to entries of other kinds that are still there
C25_Witness ==
  /\ answer.act = "dynamic"
  /\ answer.name = <<ba, fo>>
  /\ lastCacheUpdate > Epoch
  /\ refreshing = {}
  /\ DOMAIN cache = returnedEntries(ItemTypes) \cup {<<"mcp", ba>>}
  /\ cache[<<"mcp", fo>>] = "dynamic"
  /\ cache[<<"mcp", ba>>] = "dynamic"
  /\ cache[<<"agent", fo>>] = "file"

(***************************************************************************)
(* C26 as stated.  For every name, resolveType returns the kind of the     *)
(* single entry with that name, the first kind in the order mcp, plugin,   *)
(* skill, agent when several entries have the name, and unknown when none  *)
(* has.                                                                    *)
(***************************************************************************)
KindPriority == <<"mcp", "plugin", "skill", "agent">>

kindsOf(c, name) == {k[1] : k \in {x \in DOMAIN c : x[2] = name}}

byPriority(kinds) ==
  IF kinds = {} THEN "unknown"
  ELSE KindPriority[CHOOSE i \in 1..4 :
                      /\ KindPriority[i] \in kinds
                      /\ \A j \in 1..(i - 1) : KindPriority[j] \notin kinds]

lookedUp == answer.act = "resolveType" /\ answer.phase = "returned"

C26_KindByRegistry ==
  lookedUp => answer.result = byPriority(kindsOf(cache, answer.name))

(***************************************************************************)
(* C26, amended.  A name that starts with "/" resolves to skill and a name *)
(* that starts with "mcp-" to mcp, whatever the registry holds; every      *)
(* other name resolves as stated.                                          *)
(***************************************************************************)
C26_KindByPrefixThenRegistry ==
  lookedUp =>
    answer.result =
      (IF Head(answer.name) = "/" THEN "skill"
       ELSE IF Len(answer.name) >= 4 /\ SubSeq(answer.name, 1, 4) = <<"m", "c", "p", "-">>
         THEN "mcp"
       ELSE byPriority(kindsOf(cache, answer.name)))

\* mcp-fo, registered as an agent only, was resolved to mcp
C26_Witness ==
  /\ lookedUp
  /\ answer.name = McpFo
  /\ kindsOf(cache, McpFo) = {"agent"}
  /\ answer.result = "mcp"
  /\ kindsOf(cache, fo) = {"plugin", "skill", "agent"}

(***************************************************************************)
(* C27.  Every non-empty line of a chunk that matches a classification     *)
(* rule yields an event that reaches the deduplicator and, unless it is a  *)
(* repeat within the window, is in the batch of the chunk and in the       *)
(* history, whatever the other lines of the chunk are.                     *)
(***************************************************************************)
matchesRule(line) ==
  \/ SKILL_FORMAT_PATTERN(line).matched
  \/ MCP_FORMAT_PATTERN(line).matched
  \/ AGENT_FORMAT_PATTERN(line).matched
  \/ SKILL_CALL_PATTERN(line).matched
  \/ AGENT_CALL_PATTERN(line).matched
  \/ TOOL_CALL_PATTERN(line).matched
  \/ PLAN_STEP_PATTERN(line).matched

linesOf(data) ==
  LET lines == SplitLines(CleanOutput(data))
  IN  {Trim(lines[i]) : i \in 1..Len(lines)} \ {<<>>}

inBatch(o, line) == \E k \in 1..Len(o.batch) : o.batch[k].details.raw = line

inHistory(buf, line) == \E k \in 1..Len(buf) : buf[k].details.raw = line

C27_Step ==
  \A data \in FilterChunks :
    handleTerminalData(data) =>
      \A line \in {l \in linesOf(data) : matchesRule(l)} :
        \E j \in 1..Len(obs'.parsed) :
          /\ obs'.parsed[j].details.raw = line
          /\ obs'.passed[j] => inBatch(obs', line) /\ inHistory(eventBuffer', line)

C27_MatchingLineYieldsEvent == [][C27_Step]_vars

(***************************************************************************)
(* C28.  A line with a leading "> " never produces an emitted event, a     *)
(* history entry or a state-change notification, wherever it stands in the *)
(* chunk: no event of the batch or of the history was parsed from such a   *)
(* line, every notification of the chunk carries an item started by an     *)
(* event of the batch or active before the chunk, and a chunk of such      *)
(* lines only leaves the history alone and notifies nothing.               *)
(***************************************************************************)
userLine(line) == Len(line) >= 2 /\ line[1] = ">" /\ line[2] = " "

C28_Step ==
  \A data \in FilterChunks :
    handleTerminalData(data) =>
      /\ \A line \in {l \in linesOf(data) : userLine(l)} :
           /\ ~inBatch(obs', line)
           /\ ~inHistory(eventBuffer', line)
           /\ \A j \in 1..Len(obs'.parsed) : obs'.parsed[j].details.raw # line
      /\ \A i \in 1..Len(obs'.notes) :
           \/ obs'.notes[i].id \in obs'.activeBefore
           \/ \E k \in 1..Len(obs'.batch) :
                /\ ~userLine(obs'.batch[k].details.raw)
                /\ startedId(obs'.batch[k]) = obs'.notes[i].id
      /\ (\A l \in linesOf(data) : userLine(l)) =>
           /\ obs'.notes = <<>>
           /\ obs'.batch = <<>>
           /\ eventBuffer' = eventBuffer

noEventProduced == chunks' # chunks /\ obs'.batch = <<>>

C30_ActiveAndHistoryKept ==
  /\ eventBuffer' = eventBuffer
  /\ activeIds' = activeIds
  /\ activeTimeouts' = activeTimeouts
  /\ timers' = timers
  /\ runningItems' = runningItems
  /\ obs'.notes = <<>>

C30_StepUnchanged ==
  noEventProduced => C30_ActiveAndHistoryKept /\ recentEvents' = recentEvents

C30_NoEventNoChange == [][C30_StepUnchanged]_vars

(***************************************************************************)
(* C30, amended.  A chunk that produces no event leaves the active items   *)
(* and the history unchanged, notifies nothing and adds or changes no      *)
(* dedup record; a chunk whose events were all suppressed as repeats still *)
(* removes the dedup records that are more than 6000 ms old.               *)
(***************************************************************************)
C30_StepCleanupOnly ==
  noEventProduced =>
    /\ C30_ActiveAndHistoryKept
    /\ DOMAIN recentEvents' \subseteq DOMAIN recentEvents
    /\ \A k \in DOMAIN recentEvents' : recentEvents'[k] = recentEvents[k]
    /\ \A k \in DOMAIN recentEvents \ DOMAIN recentEvents' :
         /\ now - recentEvents[k] > 6000
         /\ Len(obs'.parsed) > 0

C30_NoEventOnlyCleanup == [][C30_StepCleanupOnly]_vars

\* the third chunk repeated the second within the window and produced no
\* event; the record of the first chunk, kept until then, is gone
C30_Witness ==
  /\ obs.act = "chunk"
  /\ chunks = 3
  /\ Len(obs.parsed) > 0
  /\ obs.batch = <<>>
  /\ \E k1, k2 \in DOMAIN keyLog :
       /\ ~MapHas(recentEvents, k1)
       /\ MapHas(recentEvents, k2)
       /\ now - keyLog[k1] > 6000
       /\ keyLog[k2] - keyLog[k1] <= 6000
       /\ keyLog[k2] > keyLog[k1]
       /\ now - keyLog[k2] < 3000

(***************************************************************************)
(* C31.  A line yields at most one event; the kind of the event is that of *)
(* the first rule the line matches in the order skill marker, MCP marker,  *)
(* generic bulleted name, legacy [skill], legacy [agent], bracketed        *)
(* [ToolName], plan step; a line that matches no rule yields no event.     *)
(***************************************************************************)
RuleOrder == <<"skill marker", "mcp marker", "generic name", "legacy skill",
               "legacy agent", "tool name", "plan step">>

ruleMatches(rule, line) ==
  CASE rule = "skill marker" -> SKILL_FORMAT_PATTERN(line).matched
    [] rule = "mcp marker" -> MCP_FORMAT_PATTERN(line).matched
    [] rule = "generic name" -> AGENT_FORMAT_PATTERN(line).matched
    [] rule = "legacy skill" -> SKILL_CALL_PATTERN(line).matched
    [] rule = "legacy agent" -> AGENT_CALL_PATTERN(line).matched
    [] rule = "tool name" -> TOOL_CALL_PATTERN(line).matched
    [] rule = "plan step" -> PLAN_STEP_PATTERN(line).matched

firstRule(line) ==
  LET hits == {i \in 1..Len(RuleOrder) : ruleMatches(RuleOrder[i], line)}
  IN  IF hits = {} THEN "none"
      ELSE RuleOrder[CHOOSE i \in hits : \A j \in hits : i <= j]

\* the kind a generic name has in registry c
genericKind(c, line) ==
  LET kind == byPriority(kindsOf(c, AGENT_FORMAT_PATTERN(line).g1))
  IN  IF kind = "unknown" THEN "agent_call"
      ELSE IF kind = "mcp" THEN "mcp_call"
      ELSE IF kind = "plugin" THEN "plugin_call"
      ELSE IF kind = "skill" THEN "skill_call"
      ELSE "agent_call"

kindOfRule(rule, c, line) ==
  CASE rule = "skill marker" -> "skill_call"
    [] rule = "mcp marker" -> "mcp_call"
    [] rule = "generic name" -> genericKind(c, line)
    [] rule = "legacy skill" -> "skill_call"
    [] rule = "legacy agent" -> "agent_call"
    [] rule = "tool name" -> "tool_call"
    [] rule = "plan step" -> "plan_progress"

C31_FirstMatchingRuleWins ==
  (probe.shape = "line" /\ probe.done) =>
    LET rule == firstRule(probe.line)
    IN  /\ Len(probe.events) <= 1
        /\ rule = "none" <=> probe.events = <<>>
        /\ rule # "none" =>
             /\ Len(probe.events) = 1
             /\ probe.events[1].type = kindOfRule(rule, cache, probe.line)
             /\ probe.events[1].details.raw = probe.line

\* "● mcp-fo" matches the MCP marker and the generic name, mcp-fo is a
\* plugin in the registry, and the line was classified as an MCP call
C31_Witness ==
  /\ probe.shape = "line"
  /\ probe.done
  /\ probe.line = <<"BULLET", " ">> \o McpFo
  /\ ruleMatches("mcp marker", probe.line)
  /\ ruleMatches("generic name", probe.line)
  /\ <<"plugin", McpFo>> \in DOMAIN cache
  /\ Len(probe.events) = 1
  /\ probe.events[1].type = "mcp_call"

(***************************************************************************)
(* C32 as stated.  For a SubagentStart or SubagentStop message: when       *)
(* additionalContext parses, the status it holds is delivered to the       *)
(* tracker; otherwise the status is taken from systemMessage (the word     *)
(* before "agent", else before "skill", else before "plugin") and          *)
(* delivered; when that fails too the message is dropped, and a dropped    *)
(* message leaves the running items as they are.                           *)
(***************************************************************************)
subagentMessage(content) ==
  /\ content.file = "json"
  /\ content.hasOutput
  /\ content.hookEventName \in {"SubagentStart", "SubagentStop"}

\* the inbox was polled in this step
polled == obs'.act \in {"hook", "poll"} /\ inbox' = inbox

contextValue(content) ==
  IF content.additionalContext = Undef THEN JsonError
  ELSE JsonParse(content.additionalContext)

\* the status that the free text of the message names, by the order of the
\* three words
namedInText(content) ==
  LET text == IF content.systemMessage = Undef THEN <<>>
              ELSE content.systemMessage
      a == wordBefore(text, AgentText)
      k == wordBefore(text, SkillText)
      p == wordBefore(text, PluginText)
      as(m, type) ==
        [found |-> TRUE,
         status |-> [event |-> IF content.hookEventName = "SubagentStart"
                                 THEN "START" ELSE "STOP",
                     agentId |-> m.g1, agentName |-> m.g1, type |-> type]]
  IN  IF a.matched THEN as(a, "agent")
      ELSE IF k.matched THEN as(k, "skill")
      ELSE IF p.matched THEN as(p, "plugin")
      ELSE [found |-> FALSE]

\* the step handed status to the tracker
deliveredStatus(status) ==
  /\ obs'.act = "hook"
  /\ obs'.notes = <<[id |-> status.agentId, name |-> status.agentName,
                     type |-> status.type,
                     state |-> IF status.event = "START" THEN "start"
                               ELSE "stop"]>>
  /\ status.event = "START" =>
       /\ MapHas(runningItems', status.agentId)
       /\ runningItems'[status.agentId].source = "hook"
       /\ runningItems'[status.agentId].type = status.type
  /\ status.event = "STOP" => ~MapHas(runningItems', status.agentId)
  /\ status.event = "other" => runningItems' = runningItems

\* the step dropped the message
droppedMessage == obs'.act = "poll" /\ runningItems' = runningItems

C32_StepParsedDelivered ==
  (polled /\ subagentMessage(inbox.content)) =>
    IF contextValue(inbox.content) # JsonError
      THEN deliveredStatus(statusOf(contextValue(inbox.content)))
    ELSE IF namedInText(inbox.content).found
      THEN deliveredStatus(namedInText(inbox.content).status)
    ELSE droppedMessage

C32_ParsedContextDelivered == [][C32_StepParsedDelivered]_vars

(***************************************************************************)
(* C32, amended.  The status of additionalContext is delivered when the    *)
(* text parses to a value that counts as true (an object, a non-empty      *)
(* string, a number other than 0, true); when it is missing, does not      *)
(* parse, or parses to null, false, 0 or "", the status is taken from      *)
(* systemMessage as stated, and the message is dropped when that fails.    *)
(* A message that is not a SubagentStart or SubagentStop message, and a    *)
(* file that is missing, blank or not JSON, is dropped as well.            *)
(***************************************************************************)
usable(v) ==
  /\ v.kind \notin {"error", "null"}
  /\ v.kind = "bool" => v.bool
  /\ v.kind = "number" => v.digits # <<"0">>
  /\ v.kind = "string" => v.chars # <<>>

C32_StepUsableDelivered ==
  polled =>
    IF ~subagentMessage(inbox.content) THEN droppedMessage
    ELSE IF usable(contextValue(inbox.content))
      THEN deliveredStatus(statusOf(contextValue(inbox.content)))
    ELSE IF namedInText(inbox.content).found
      THEN deliveredStatus(namedInText(inbox.content).status)
    ELSE droppedMessage

C32_UsableContextDelivered == [][C32_StepUsableDelivered]_vars

\* a SubagentStart message whose additionalContext is cut short and whose
\* text names a skill before it names an agent: the agent was started
C32_Witness ==
  /\ obs.act = "hook"
  /\ subagentMessage(inbox.content)
  /\ inbox.content.hookEventName = "SubagentStart"
  /\ inbox.content.additionalContext # Undef
  /\ inbox.content.additionalContext # <<>>
  /\ JsonParse(inbox.content.additionalContext) = JsonError
  /\ wordBefore(inbox.content.systemMessage, SkillText).matched
  /\ obs.notes[1].id = fo
  /\ obs.notes[1].type = "agent"
  /\ MapHas(runningItems, fo)
  /\ runningItems[fo].source = "hook"

(***************************************************************************)
(* C33.  Every start notification that the terminal channel emits for an   *)
(* id is followed, in the same step or in a later one, by a stop           *)
(* notification for that id, provided that time passes and armed timers    *)
(* fire.                                                                   *)
(***************************************************************************)
\* the last notification of the step about id has the given state
lastNoteIs(id, state) ==
  \E i \in 1..Len(obs.notes) :
    /\ obs.notes[i].id = id
    /\ obs.notes[i].state = state
    /\ \A j \in (i + 1)..Len(obs.notes) : obs.notes[j].id # id

C33_StartLeadsToStop ==
  \A id \in {fo, ba} :
    (obs.act = "chunk" /\ lastNoteIs(id, "start")) ~> lastNoteIs(id, "stop")

\* fo was started twice and ba once, and the last timer armed, for fo, has
\* fired at the time it was due
C33_Witness ==
  /\ obs.act = "timer"
  /\ lastNoteIs(fo, "stop")
  /\ chunks = 3
  /\ obs.fired = now
  /\ track[fo].start + AGENT_TIMEOUT = now
  /\ track[fo].stops >= 2
  /\ MapHas(track, ba)
  /\ timers = {}

(***************************************************************************)
(* C34.  With no hook status delivered, after every processed chunk and    *)
(* after every timer callback the ids running in RunningStateManager are   *)
(* the ids that TerminalListener holds as active, each with the same kind  *)
(* in both.                                                                *)
(***************************************************************************)
C34_ManagerMirrorsListener ==
  (hooks = 0 /\ obs.act \in {"chunk", "timer"}) =>
    /\ DOMAIN runningItems = OrderedKeys(activeIds)
    /\ \A i \in 1..Len(activeIds) :
         runningItems[activeIds[i][1]].type = activeIds[i][2]

\* a timer callback has stopped one of two active items of different kinds
C34_Witness ==
  /\ hooks = 0
  /\ obs.act = "timer"
  /\ Len(activeIds) = 1
  /\ DOMAIN runningItems = {activeIds[1][1]}
  /\ obs.notes[1].id # activeIds[1][1]
  /\ obs.notes[1].type # activeIds[1][2]
  /\ runningItems[activeIds[1][1]].type = activeIds[1][2]

(***************************************************************************)
(* C35.  A start event whose own content carries an end-of-execution       *)
(* phrase is stopped in the pass that starts it, together with every other *)
(* active id: its start notification is followed by its stop notification, *)
(* the timer it armed is cancelled, and after the chunk it is not active.  *)
(***************************************************************************)
\* the k-th emitted event of the chunk starts an item and carries an end phrase
selfEnding(k) ==
  /\ k \in 1..Len(obs.batch)
  /\ obs.batch[k].type \in {"agent_call", "skill_call", "plugin_call", "mcp_call"}
  /\ \E f \in DOMAIN obs.batch[k].details \ {"raw"} :
       obs.batch[k].details[f] # <<>>
  /\ \E i \in 1..Len(obs.batch[k].content) :
       \/ LitAt(obs.batch[k].content, i, <<"F", "i", "n", "i", "s", "h", "e", "d">>)
       \/ LitAtNoCase(obs.batch[k].content, i,
                      <<"C", "o", "m", "p", "l", "e", "t", "e">>)

\* the id the k-th emitted event names
idOf(k) ==
  obs.batch[k].details[CHOOSE f \in DOMAIN obs.batch[k].details \ {"raw"} : TRUE]

\* the events emitted after the k-th that name the same id
laterStarts(k) ==
  {m \in (k + 1)..Len(obs.batch) :
     /\ obs.batch[m].type \in {"agent_call", "skill_call", "plugin_call", "mcp_call"}
     /\ \E f \in DOMAIN obs.batch[m].details \ {"raw"} :
          obs.batch[m].details[f] = idOf(k)}

\* the start of the k-th emitted event is notified, and a stop of it follows
startThenStop(k) ==
  \E i \in 1..Len(obs.notes) : \E j \in (i + 1)..Len(obs.notes) :
    /\ obs.notes[i].state = "start"
    /\ obs.notes[i].id = idOf(k)
    /\ obs.notes[i].name = obs.batch[k].content
    /\ obs.notes[j].state = "stop"
    /\ obs.notes[j].id = idOf(k)

\* every id that was active before the chunk has its stop notified
othersStopped ==
  \A id \in obs.activeBefore :
    \E j \in 1..Len(obs.notes) : obs.notes[j].state = "stop" /\ obs.notes[j].id = id

\* no timer armed in this chunk is left for the id
timerCancelled(k) ==
  /\ ~MapHas(activeTimeouts, idOf(k))
  /\ \A x \in timers : ~(x.id = idOf(k) /\ x.due = now + AGENT_TIMEOUT)

\* the statement as written: the id is not active after the chunk
C35_SelfEndingNotActive ==
  obs.act = "chunk" =>
    \A k \in 1..Len(obs.batch) :
      selfEnding(k) =>
        /\ startThenStop(k)
        /\ othersStopped
        /\ laterStarts(k) = {} => timerCancelled(k)
        /\ idOf(k) \notin OrderedKeys(activeIds)

\* the statement that holds: the id is not active after the chunk unless a
\* later event of the same chunk starts it again, and then nothing else is
C35_SelfEndingStopped ==
  obs.act = "chunk" =>
    \A k \in 1..Len(obs.batch) :
      selfEnding(k) =>
        /\ startThenStop(k)
        /\ othersStopped
        /\ laterStarts(k) = {} =>
             /\ timerCancelled(k)
             /\ idOf(k) \notin OrderedKeys(activeIds)
        /\ OrderedKeys(activeIds) \subseteq {idOf(m) : m \in (k + 1)..Len(obs.batch)}

\* "● fo(Complete)" arrives while ba is active: both are stopped
C35_Witness ==
  /\ obs.act = "chunk"
  /\ Len(obs.batch) = 1
  /\ selfEnding(1)
  /\ idOf(1) = fo
  /\ obs.activeBefore = {ba}
  /\ Len(obs.notes) = 3
  /\ obs.notes[1].state = "start"
  /\ obs.notes[1].id = fo
  /\ activeIds = <<>>
  /\ \A x \in timers : x.id # fo
  /\ \E x \in timers : x.id = ba

(***************************************************************************)
(* C36.  An event suppressed by the deduplicator has no effect: it emits   *)
(* no start or stop notification, arms or cancels no timer, triggers no    *)
(* end-signal stop, is not appended to the history and is not part of the  *)
(* batch notification.  A chunk whose events are all suppressed changes    *)
(* none of these; in any chunk the history grows by the emitted events     *)
(* only, and every start notification belongs to an emitted event.         *)
(***************************************************************************)
\* the events of the chunk that passed the deduplicator, in line order
emitted(o) ==
  LET RECURSIVE from(_)
      from(i) == IF i > Len(o.parsed) THEN <<>>
                 ELSE IF o.passed[i] THEN <<o.parsed[i]>> \o from(i + 1)
                 ELSE from(i + 1)
  IN  from(1)

allSuppressed(o) ==
  /\ o.act = "chunk"
  /\ Len(o.parsed) > 0
  /\ \A i \in 1..Len(o.parsed) : ~o.passed[i]

\* a step that processes a chunk
chunkStep == chunks' = chunks + 1 /\ obs'.act = "chunk"

C36_Step ==
    chunkStep =>
      /\ obs'.batch = emitted(obs')
      /\ pushed' - pushed = Len(emitted(obs'))
      /\ Cardinality({i \in 1..Len(obs'.notes) : obs'.notes[i].state = "start"})
           <= Len(emitted(obs'))
      /\ \A i \in 1..Len(obs'.notes) :
           obs'.notes[i].state = "start" =>
             \E k \in 1..Len(obs'.parsed) :
               obs'.passed[k] /\ obs'.parsed[k].content = obs'.notes[i].name
      /\ allSuppressed(obs') =>
           /\ obs'.notes = <<>>
           /\ obs'.seen = -1
           /\ UNCHANGED <<timers, activeTimeouts, activeIds, runningItems,
                          eventBuffer, pushed>>

C36_SuppressedHasNoEffect == [][C36_Step]_vars

\* a repeated "Finished" line is suppressed while an item is active, and the
\* item stays active with its timer armed
C36_Witness ==
  /\ allSuppressed(obs)
  /\ obs.endLine
  /\ activeIds # <<>>
  /\ obs.activeBefore = OrderedKeys(activeIds)
  /\ timers # {}

(***************************************************************************)
(* C37.  A suppressed duplicate does not refresh the dedup record: the     *)
(* window is measured from the last emitted occurrence.  A line repeated   *)
(* at intervals shorter than 3000ms is emitted again once 3000ms have      *)
(* passed since its last emission, and the cleanup never removes a record  *)
(* that is still inside the window.                                        *)
(***************************************************************************)
\* the i-th parsed event of the chunk is the first of its kind and content
firstInChunk(o, i) ==
  \A j \in 1..(i - 1) :
    ~(o.parsed[j].type = o.parsed[i].type
      /\ SubSeq(o.parsed[j].content, 1, Min({100, Len(o.parsed[j].content)}))
           = SubSeq(o.parsed[i].content, 1, Min({100, Len(o.parsed[i].content)})))

\* the kind and content under which the i-th parsed event is recorded
recordOf(o, i) ==
  <<o.parsed[i].type,
    SubSeq(o.parsed[i].content, 1, Min({100, Len(o.parsed[i].content)}))>>

C37_Step ==
  chunkStep =>
    /\ \A i \in 1..Len(obs'.parsed) :
         LET k == recordOf(obs', i)
         IN  /\ (firstInChunk(obs', i) /\ ~obs'.passed[i]) =>
                  /\ k \in DOMAIN keyLog
                  /\ MapHas(recentEvents, k)
                  /\ MapHas(recentEvents', k)
                  /\ recentEvents'[k] = recentEvents[k]
                  /\ recentEvents'[k] = keyLog[k]
             /\ (firstInChunk(obs', i) /\ k \in DOMAIN keyLog
                   /\ now - keyLog[k] >= DUPLICATE_WINDOW) =>
                  /\ obs'.passed[i]
                  /\ MapHas(recentEvents', k)
                  /\ recentEvents'[k] = now
    /\ \A k \in DOMAIN keyLog' :
         now - keyLog'[k] < DUPLICATE_WINDOW => MapHas(recentEvents', k)

C37_WindowFromLastEmission == [][C37_Step]_vars

\* a line emitted at 0 is repeated 2000ms later: it is suppressed and its
\* record still carries the time of the emission
C37_Witness ==
  /\ allSuppressed(obs)
  /\ Len(obs.parsed) = 1
  /\ now = 2 * Moment
  /\ obs.keyAge[1] = 2 * Moment
  /\ MapHas(recentEvents, recordOf(obs, 1))
  /\ recentEvents[recordOf(obs, 1)] = 0

(***************************************************************************)
(* C38.  For each chunk the batch of new events is delivered at most once, *)
(* only when it is non-empty, holding exactly the events that passed the   *)
(* deduplicator in that chunk in line order, and only after all state      *)
(* change notifications of the chunk: when it is delivered every event of  *)
(* the chunk has been processed and is in the history.                     *)
(***************************************************************************)
\* the batch listener was called in the last step
batchDelivered(o) == o.seen >= 0

C38_Step ==
  chunkStep =>
    /\ batchDelivered(obs') <=> (\E i \in 1..Len(obs'.parsed) : obs'.passed[i])
    /\ batchDelivered(obs') =>
         /\ obs'.batch = emitted(obs')
         /\ obs'.batch # <<>>
         /\ obs'.seen = Len(eventBuffer) + Len(emitted(obs'))
         /\ pushed' = pushed + Len(emitted(obs'))
    /\ ~batchDelivered(obs') => obs'.notes = <<>>

C38_BatchOnceAfterStateChanges == [][C38_Step]_vars

\* a chunk of three lines: two starts and a stop of both are notified, then
\* the batch of three is delivered
C38_Witness ==
  /\ obs.act = "chunk"
  /\ Len(obs.batch) = 3
  /\ obs.batch[1].type = "agent_call"
  /\ obs.batch[2].type = "skill_call"
  /\ obs.batch[3].type = "tool_call"
  /\ Len(obs.notes) >= 3
  /\ obs.notes[1].state = "start"
  /\ obs.notes[Len(obs.notes)].state = "stop"
  /\ obs.seen = pushed
  /\ obs.seen > BufferCapacity

(***************************************************************************)
(* C39.  The history is a contiguous, order-preserving suffix of the       *)
(* sequence of events emitted since the last clearEvents(): a chunk leaves *)
(* a suffix of the old history followed by its emitted events, nothing     *)
(* else changes the history, and clearEvents() empties it without changing *)
(* dedup records, active ids or armed timers.                              *)
(***************************************************************************)
\* history entry b is the emitted event e
entryOf(b, e) ==
  /\ b.type = e.type
  /\ b.content = e.content
  /\ b.timestamp = e.timestamp
  /\ b.details = e.details

\* after is a suffix of before followed by the events new
suffixOfAppended(after, before, new) ==
  LET drop == Len(before) + Len(new) - Len(after)
  IN  /\ drop >= 0
      /\ \A i \in 1..Len(after) :
           IF i + drop <= Len(before)
             THEN after[i] = before[i + drop]
             ELSE entryOf(after[i], new[i + drop - Len(before)])

C39_Step ==
  /\ chunkStep =>
       /\ suffixOfAppended(eventBuffer', eventBuffer, emitted(obs'))
       /\ emitted(obs') # <<>> => Len(eventBuffer') >= Len(emitted(obs'))
  /\ obs'.act = "clear" =>
       /\ eventBuffer' = <<>>
       /\ UNCHANGED <<recentEvents, activeIds, activeTimeouts, timers,
                      runningItems>>
  /\ obs'.act \notin {"chunk", "clear"} => UNCHANGED eventBuffer
  /\ \A i \in 1..(Len(eventBuffer') - 1) :
       eventBuffer'[i + 1].seq = eventBuffer'[i].seq + 1
  /\ eventBuffer' # <<>> => eventBuffer'[Len(eventBuffer')].seq = pushed'

C39_HistoryIsSuffix == [][C39_Step]_vars

\* the history was trimmed, then cleared while an item is active and its
\* timer armed
C39_Witness ==
  /\ obs.act = "clear"
  /\ eventBuffer = <<>>
  /\ pushed > BufferCapacity
  /\ activeIds # <<>>
  /\ timers # {}
  /\ recentEvents # EmptyMap

(***************************************************************************)
(* C40.  Each status message written to the hook inbox is delivered to the *)
(* status callback at most once: a delivery is of a message that was not   *)
(* delivered before, so the deliveries never outnumber the messages        *)
(* written, and an item stopped after a hook START does not become active  *)
(* again unless a new START message is written.                            *)
(***************************************************************************)
\* the status callback is called in this step
delivery == hooks' = hooks + 1

C40_Step == delivery => hooks' <= inbox.written

C40_DeliveredAtMostOnce == [][C40_Step]_vars

\* one START of fo was written and delivered; fo was then started and stopped
\* on the terminal channel; the next poll delivers the same message and fo is
\* running again
C40_Reactivated ==
  /\ obs.act = "hook"
  /\ inbox.written = 1
  /\ hooks = 2
  /\ chunks = 2
  /\ fo \notin obs.activeBefore
  /\ MapHas(runningItems, fo)
  /\ runningItems[fo].source = "hook"
  /\ activeIds = <<>>

=============================================================================
